---------------------------- MODULE Spec2Model ----------------------------
(***************************************************************************)
(* Model of the Cook County Recorder of Deeds scraper.                     *)
(*                                                                         *)
(* Spec is one state machine for the two programs of the repository.       *)
(* main.py: get_pins_to_scrape, scrape_pin and the ledger append, with the *)
(* discovery and page extraction of scrape.py, the row construction of     *)
(* insert_content and the constraints of models.py.  scraper.py: the loop  *)
(* of Scraper.scrape over self.data and the files of the data directory,   *)
(* followed by load_scraped_data.py on the schema of                       *)
(* initialize_postgres.py.                                                 *)
(*                                                                         *)
(* The pure functions are checked on bounded inputs under SpecPin          *)
(* (clean_pin), SpecDedup (remove_duplicates) and SpecLedger               *)
(* (get_pins_to_scrape).                                                   *)
(*                                                                         *)
(* Text that the code parses character by character (PINs, dates, page     *)
(* counts) is a sequence of one-character strings; text the code only      *)
(* copies (document numbers, names) is a TLA+ string.                      *)
(***************************************************************************)
EXTENDS Integers, Sequences, FiniteSets, TLC

VARIABLES
    program,        \* the program that runs: "main" (main.py) or "scraper"
                    \* (scraper.py, followed by load_scraped_data.py)
    pins_csv,       \* the PIN list: lines of data/pins.csv, or the rows of
                    \* get_pin_list
    ledgerExists,   \* os.path.exists("data/completed_pins.csv")
    ledger,         \* lines of data/completed_pins.csv
    pc,             \* position of the __main__ block / scrape_pin
    todo,           \* the list returned by get_pins_to_scrape for this run
    idx,            \* index in todo of the PIN of the current loop iteration
    cleaned_pin,    \* scrape_pin: cleaned_pin
    tmpl,           \* retrieve_doc_page_urls: index of the next URL template
    url_pathnames,  \* retrieve_doc_page_urls: accumulated hrefs
    doc_pathnames,  \* scrape_pin: deduplicated hrefs
    docIdx,         \* scrape_pin: index of the next doc_pathname
    session,        \* db_session: rows added and not yet flushed
    store,          \* the committed rows of the database, in insertion order
    runs,           \* number of runs of the program started so far
    faults,         \* number of environment failures injected so far
    data,           \* Scraper.data: dict of PIN to {"docs": dict of doc_num to doc}
    files,          \* the PDF files of the data directory
    metadata,       \* data/metadata.json
    lstore,         \* the rows of the database the loading script fills
    loader,         \* the loading script of this installation:
                    \* "load_scraped_data" or "scraped_data_to_postgres",
                    \* "none" until it is first run
    hist,           \* observations of the current PIN (not program state)
    inp,            \* SpecPin / SpecDedup / SpecLedger: the argument
    out             \* SpecPin / SpecDedup / SpecLedger: the value returned

vars == <<program, pins_csv, ledgerExists, ledger, pc, todo, idx, cleaned_pin,
          tmpl, url_pathnames, doc_pathnames, docIdx, session, store, runs,
          faults, data, files, metadata, lstore, loader, hist, inp, out>>

\* The variables only scraper.py and load_scraped_data.py change.
scraperVars == <<program, data, files, metadata, lstore, loader>>

\* The variables only main.py changes.
ormVars == <<ledgerExists, ledger, doc_pathnames, session, store>>

-----------------------------------------------------------------------------
(* Bounds of the model.                                                    *)

MaxPins == 2        \* longest input list of PINs
MaxRuns == 2        \* runs of the program in one behaviour
MaxFaults == 1      \* injected environment failures in one behaviour
MaxRawLen == 16     \* longest string given to clean_pin under SpecPin
MaxExtra == 2       \* non-pattern characters in a string given to clean_pin
MaxRefs == 6        \* longest list given to remove_duplicates under SpecDedup
MaxLines == 3       \* longest pins.csv and ledger under SpecLedger

-----------------------------------------------------------------------------
(* Values.                                                                 *)

\* Python's None, for text held as a TLA+ string and as a character sequence.
None == "None"
NoneS == <<"None">>

\* A key that the doc_info dict does not hold.
AbsentS == <<"Absent">>
Absent == "Absent"

\* The AssertionError of clean_pin, as the value it yields instead of a
\* result.  Elsewhere an exception is the name in the "exc" field of a result.
AssertionError == <<"AssertionError">>

AsciiDigits == {"0", "1", "2", "3", "4", "5", "6", "7", "8", "9"}

\* A character outside ASCII for which str.isdigit is true (U+0663).
ArabicThree == "ARABIC-INDIC DIGIT THREE"

SeqToSet(s) == {s[i] : i \in 1..Len(s)}

-----------------------------------------------------------------------------
(* utils.py                                                                *)

\* str.isdigit on one character: true of every Unicode decimal digit.
isdigit(c) == c \in AsciiDigits \cup {ArabicThree}

PinLen == 14

\* clean_pin accepting any string with at least 14 digits.
clean_pin_at_least(pin) ==
    LET digits == SelectSeq(pin, isdigit)
    IN  IF Len(digits) >= PinLen THEN digits ELSE AssertionError

\* clean_pin(pin): "".join(filter(str.isdigit, pin)), asserted to have length 14.
clean_pin(pin) ==
    LET digits == SelectSeq(pin, isdigit)
    IN  IF Len(digits) = PinLen THEN digits ELSE AssertionError

RECURSIVE fromkeys(_, _)
\* dict.fromkeys(l): the keys in insertion order, a repeated key keeping its place.
fromkeys(l, keys) ==
    IF l = <<>> THEN keys
    ELSE IF Head(l) \in SeqToSet(keys)
         THEN fromkeys(Tail(l), keys)
         ELSE fromkeys(Tail(l), Append(keys, Head(l)))

\* remove_duplicates(list_of_strings): list(dict.fromkeys(list_of_strings)).
remove_duplicates(list_of_strings) == fromkeys(list_of_strings, <<>>)

-----------------------------------------------------------------------------
(* main.py: get_pins_to_scrape                                             *)

\* One line of a file read with csv.reader(file, delimiter=" ") and rebuilt
\* with "".join(row).strip(" "): the line without its spaces.
csv_line(line) == SelectSeq(line, LAMBDA c : c # " ")

RECURSIVE csv_lines(_)
csv_lines(file) ==
    IF file = <<>> THEN <<>>
    ELSE <<csv_line(Head(file))>> \o csv_lines(Tail(file))

\* "17-29-304-001-0000", the first default PIN of get_pins_to_scrape.
PinA == <<"1", "7", "-", "2", "9", "-", "3", "0", "4", "-", "0", "0", "1",
          "-", "0", "0", "0", "0">>
\* "17-05-115-085-0000", the second default PIN.
PinC == <<"1", "7", "-", "0", "5", "-", "1", "1", "5", "-", "0", "8", "5",
          "-", "0", "0", "0", "0">>
\* "16-10-421-053-0000", the third default PIN.
PinB == <<"1", "6", "-", "1", "0", "-", "4", "2", "1", "-", "0", "5", "3",
          "-", "0", "0", "0", "0">>

\* A text file of the data directory: whether it exists, and its lines.
File(exists, lines) == [exists |-> exists, lines |-> lines]

\* The list get_pins_to_scrape starts from: the lines of pins.csv, or three
\* PINs of its own when the file does not exist.
pins_of(pins_file) ==
    IF pins_file.exists THEN csv_lines(pins_file.lines)
    ELSE <<PinA, PinC, PinB>>

\* get_pins_to_scrape comparing each PIN with the last ledger line only.
get_pins_to_scrape_last_only(pins_file, completed_file) ==
    LET pins == pins_of(pins_file)
        completed_pins == csv_lines(completed_file.lines)
    IN  IF completed_file.exists
        THEN [exc |-> "none",
              pins |-> SelectSeq(pins, LAMBDA pin :
                          completed_pins = <<>>
                          \/ pin # completed_pins[Len(completed_pins)])]
        ELSE IF pins = <<>>
             THEN [exc |-> "AssertionError", pins |-> <<>>]
             ELSE [exc |-> "none", pins |-> pins]

\* get_pins_to_scrape(): the PINs of the list that are no line of
\* completed_pins.csv, when that file exists; all of them (asserted to be at
\* least one) when it does not.
get_pins_to_scrape(pins_file, completed_file) ==
    LET pins == pins_of(pins_file)
        completed_pins == csv_lines(completed_file.lines)
    IN  IF completed_file.exists
        THEN [exc |-> "none",
              pins |-> SelectSeq(pins, LAMBDA pin :
                          pin \notin SeqToSet(completed_pins))]
        ELSE IF pins = <<>>
             THEN [exc |-> "AssertionError", pins |-> <<>>]
             ELSE [exc |-> "none", pins |-> pins]

-----------------------------------------------------------------------------
(* The environment: the PIN files and the recorder's portal.               *)

\* The same parcel written with spaces: csv_line reads it as 14 bare digits.
PinASpaced == <<"1", "7", " ", "2", "9", " ", "3", "0", "4", " ", "0", "0",
                "1", " ", "0", "0", "0", "0">>
\* "17-29-304": too few digits.
PinBad == <<"1", "7", "-", "2", "9", "-", "3", "0", "4">>
\* "17-05-115-085-000" followed by U+0663: 14 characters for which
\* str.isdigit is true.
PinArabic == <<"1", "7", "-", "0", "5", "-", "1", "1", "5", "-", "0", "8", "5",
               "-", "0", "0", "0", ArabicThree>>

RawPins == {PinA, PinASpaced, PinB, PinBad}

CleanA == <<"1", "7", "2", "9", "3", "0", "4", "0", "0", "1", "0", "0", "0", "0">>
CleanB == <<"1", "6", "1", "0", "4", "2", "1", "0", "5", "3", "0", "0", "0", "0">>

\* "$1,250.00"
Amount1250 == <<"$", "1", ",", "2", "5", "0", ".", "0", "0">>

Date2020 == <<"0", "3", "/", "1", "5", "/", "2", "0", "2", "0">>
DateIso == <<"2", "0", "2", "0", "-", "0", "3", "-", "1", "5">>

\* A section of a detail page: heading, table, tbody and the rows' cells.
Section(rows) == [heading |-> TRUE, table |-> TRUE, tbody |-> TRUE, rows |-> rows]

\* A well-formed detail page of document doc_num.
GoodPage(doc_num) ==
    [status |-> 200,
     info |-> TRUE,
     document_number |-> doc_num,
     date_executed |-> Date2020,
     date_recorded |-> Date2020,
     num_pages |-> <<"3">>,
     address |-> "1 MAIN ST",
     document_type |-> "DEED",
     consideration_amount |-> Amount1250,
     grantors |-> Section(<<[name |-> "ALICE", trust_number |-> ""]>>),
     grantees |-> Section(<<[name |-> "BOB", trust_number |-> "T1"]>>),
     prior |-> Section(<<"D0">>),
     related |-> Section(<<PinB>>),
     anchor |-> TRUE,
     pdf |-> "/Document/DisplayPdf"]

\* The detail pages the portal serves.
PageOf(href) ==
    CASE href = "/doc/1" -> GoodPage("D1")
      [] href = "/doc/2" -> [GoodPage("D2") EXCEPT !.anchor = FALSE]
      [] href = "/doc/3" -> GoodPage("D3")
      [] href = "/doc/4" -> GoodPage("D4")
      [] href = "/doc/5" -> [GoodPage("D5") EXCEPT !.date_executed = DateIso]
      [] href = "/doc/6" -> [GoodPage("D6") EXCEPT !.date_recorded = <<>>]
      [] href = "/doc/7" -> [GoodPage("D7") EXCEPT
                                !.related = Section(<<PinB, PinBad, PinA, PinB>>)]
      [] href = "/doc/8" -> [GoodPage("D8") EXCEPT !.date_recorded = DateIso]
      [] href = "/doc/9" -> [GoodPage("D9") EXCEPT !.related = Section(<<PinArabic>>)]
      [] href = "/doc/10" -> [GoodPage("D10") EXCEPT
                                 !.grantees = Section(<<[name |-> "ALICE",
                                                         trust_number |-> "T1"]>>)]
      [] href = "/doc/11" -> [GoodPage("D11") EXCEPT !.grantees.tbody = FALSE]
      [] href = "/doc/12" -> [GoodPage("D12") EXCEPT !.grantors.heading = FALSE]
      [] href = "/doc/13" -> [GoodPage("D13") EXCEPT !.num_pages = AbsentS]
      [] href = "/doc/14" -> [GoodPage("D14") EXCEPT !.num_pages = <<"x">>]

\* The detail pages of the portal.  The result pages of the parcels of
\* Ascending list the first five.
Hrefs == {"/doc/1", "/doc/2", "/doc/3", "/doc/4", "/doc/5", "/doc/6", "/doc/7",
          "/doc/8"}

Reverse(s) == [i \in 1..Len(s) |-> s[Len(s) + 1 - i]]

\* Rows a result view shows.
ViewRows == 2

\* The documents of a parcel in the order of each of the four sort columns
\* (DateRecorded, AlphaDocNumber, DateExecuted, DocTypeDescription), ascending.
Ascending(pin, column) ==
    IF pin = CleanA
    THEN CASE column = 1 -> <<"/doc/1", "/doc/2", "/doc/3">>
           [] column = 2 -> <<"/doc/1", "/doc/2", "/doc/3">>
           [] column = 3 -> <<"/doc/2", "/doc/1", "/doc/3">>
           [] column = 4 -> <<"/doc/3", "/doc/1", "/doc/2">>
    ELSE IF pin = CleanB
    THEN CASE column = 1 -> <<"/doc/3", "/doc/4", "/doc/5">>
           [] column = 2 -> <<"/doc/3", "/doc/4", "/doc/5">>
           [] column = 3 -> <<"/doc/5", "/doc/4", "/doc/3">>
           [] column = 4 -> <<"/doc/4", "/doc/3", "/doc/5">>
    ELSE <<>>

\* The hrefs of the "View" anchors of the result page of template t.
View(pin, t) ==
    LET column == (t + 1) \div 2
        all == IF t % 2 = 1 THEN Reverse(Ascending(pin, column))
               ELSE Ascending(pin, column)
    IN  SubSeq(all, 1, IF Len(all) < ViewRows THEN Len(all) ELSE ViewRows)

-----------------------------------------------------------------------------
(* Python built-ins used by insert_content.                                *)

NullDate == <<0, 0, 0>>     \* SQL NULL in a DATE column

DigitValue(c) == CHOOSE n \in 0..9 : <<"0", "1", "2", "3", "4", "5", "6", "7", "8", "9">>[n + 1] = c

RECURSIVE DigitsValue(_)
DigitsValue(s) ==
    IF s = <<>> THEN 0
    ELSE DigitsValue(SubSeq(s, 1, Len(s) - 1)) * 10 + DigitValue(s[Len(s)])

AllAsciiDigits(s) == \A i \in 1..Len(s) : s[i] \in AsciiDigits

\* int(x) for a string, None or the int 0 that .get("#_of_pages", 0) yields
\* when the key is absent.
py_int(x) ==
    IF x = AbsentS THEN [exc |-> "none", value |-> 0]
    ELSE IF x = NoneS THEN [exc |-> "TypeError", value |-> 0]
    ELSE IF x # <<>> /\ AllAsciiDigits(x)
         THEN [exc |-> "none", value |-> DigitsValue(x)]
         ELSE [exc |-> "ValueError", value |-> 0]

RECURSIVE SplitOn(_, _)
SplitOn(s, sep) ==
    IF sep \notin SeqToSet(s) THEN <<s>>
    ELSE LET i == CHOOSE k \in 1..Len(s) :
                      s[k] = sep /\ \A j \in 1..(k - 1) : s[j] # sep
         IN  <<SubSeq(s, 1, i - 1)>> \o SplitOn(SubSeq(s, i + 1, Len(s)), sep)

IsLeap(y) == (y % 4 = 0 /\ y % 100 # 0) \/ y % 400 = 0

DaysIn(m, y) ==
    IF m = 2 THEN (IF IsLeap(y) THEN 29 ELSE 28)
    ELSE IF m \in {4, 6, 9, 11} THEN 30 ELSE 31

\* datetime.strptime(s, "%m/%d/%Y").date(): month and day of one or two
\* digits, a year of four, a date of the calendar; ValueError otherwise.
strptime(s) ==
    LET parts == SplitOn(s, "/")
        wellFormed ==
            /\ Len(parts) = 3
            /\ \A i \in 1..3 : AllAsciiDigits(parts[i])
            /\ Len(parts[1]) \in {1, 2}
            /\ Len(parts[2]) \in {1, 2}
            /\ Len(parts[3]) = 4
        m == DigitsValue(parts[1])
        d == DigitsValue(parts[2])
        y == DigitsValue(parts[3])
    IN  IF wellFormed /\ m \in 1..12 /\ y >= 1 /\ d >= 1 /\ d <= DaysIn(m, y)
        THEN [exc |-> "none", date |-> <<y, m, d>>]
        ELSE [exc |-> "ValueError", date |-> NullDate]

\* datetime.strptime(...) if date_str else None, with .get() of an absent key.
parse_optional_date(date_str) ==
    IF date_str \in {AbsentS, NoneS, <<>>}
    THEN [exc |-> "none", date |-> NullDate]
    ELSE strptime(date_str)

-----------------------------------------------------------------------------
(* scrape.py: the page extractor                                           *)

RECURSIVE table_rows(_)
\* The loop over the rows of a grantor or grantee table: name and trust
\* number of each row, a blank trust number becoming None.
table_rows(rows) ==
    IF rows = <<>> THEN <<>>
    ELSE <<[name |-> Head(rows).name,
            trust_number |-> IF Head(rows).trust_number # ""
                             THEN Head(rows).trust_number ELSE None]>>
         \o table_rows(Tail(rows))

\* extract_table_data(section_title): [] without the heading or the table,
\* the rows with a tbody, and None (the function ends without a return)
\* when the table has no tbody.
extract_table_data(sec) ==
    IF ~sec.heading THEN [is_none |-> FALSE, data |-> <<>>]
    ELSE IF ~sec.table THEN [is_none |-> FALSE, data |-> <<>>]
    ELSE IF sec.tbody THEN [is_none |-> FALSE, data |-> table_rows(sec.rows)]
    ELSE [is_none |-> TRUE, data |-> <<>>]

\* extract_grantor_grantee(soup)
extract_grantor_grantee(page) ==
    [grantors |-> extract_table_data(page.grantors),
     grantees |-> extract_table_data(page.grantees)]

\* extract_prior_documents(soup)
extract_prior_documents(page) ==
    IF ~page.prior.heading \/ ~page.prior.table \/ ~page.prior.tbody
    THEN <<>>
    ELSE page.prior.rows

RECURSIVE clean_all(_)
\* The loop of extract_related_pins: clean_pin on the first cell of each row;
\* the first failing assertion ends it.
clean_all(rows) ==
    IF rows = <<>> THEN [exc |-> "none", pins |-> <<>>]
    ELSE LET c == clean_pin(Head(rows))
             rest == clean_all(Tail(rows))
         IN  IF c = AssertionError \/ rest.exc # "none"
             THEN [exc |-> "AssertionError", pins |-> <<>>]
             ELSE [exc |-> "none", pins |-> <<c>> \o rest.pins]

\* extract_related_pins(soup)
extract_related_pins(page) ==
    IF ~page.related.heading \/ ~page.related.table \/ ~page.related.tbody
    THEN [exc |-> "none", pins |-> <<>>]
    ELSE LET r == clean_all(page.related.rows)
         IN  [exc |-> r.exc, pins |-> remove_duplicates(r.pins)]

\* extract_info(soup): the label/value dict, or [] without the section.
extract_info(page) ==
    [is_dict |-> page.info,
     document_number |-> IF page.info THEN page.document_number ELSE Absent,
     date_executed |-> IF page.info THEN page.date_executed ELSE AbsentS,
     date_recorded |-> IF page.info THEN page.date_recorded ELSE AbsentS,
     num_pages |-> IF page.info THEN page.num_pages ELSE AbsentS,
     address |-> IF page.info THEN page.address ELSE None,
     document_type |-> IF page.info THEN page.document_type ELSE Absent,
     consideration_amount |-> IF page.info THEN page.consideration_amount ELSE NoneS]

BASE_URL == "https://crs.cookcountyclerkil.gov"

ContentOf(page) ==
    [doc_info |-> extract_info(page),
     entities |-> extract_grantor_grantee(page),
     prior_docs |-> extract_prior_documents(page),
     related_pins |-> extract_related_pins(page).pins,
     pdf_url |-> <<BASE_URL, page.pdf>>]

\* scrape_doc_page that lets the assertion on the status escape.
scrape_doc_page_status_raises(page, transport) ==
    IF transport = "raise"
    THEN [exc |-> "ConnectionError", is_none |-> TRUE, content |-> ContentOf(page)]
    ELSE IF transport = "non200" \/ page.status # 200
    THEN [exc |-> "AssertionError", is_none |-> TRUE, content |-> ContentOf(page)]
    ELSE IF extract_related_pins(page).exc # "none"
    THEN [exc |-> "none", is_none |-> TRUE, content |-> ContentOf(page)]
    ELSE IF ~page.anchor
    THEN [exc |-> "TypeError", is_none |-> TRUE, content |-> ContentOf(page)]
    ELSE [exc |-> "none", is_none |-> FALSE, content |-> ContentOf(page)]

\* scrape_doc_page(url_pathname): None when an assertion fails (the status,
\* a related PIN), TypeError when the PDF anchor is missing (None["href"]),
\* the content otherwise; an exception of requests.get is not caught.
scrape_doc_page(page, transport) ==
    IF transport = "raise"
    THEN [exc |-> "ConnectionError", is_none |-> TRUE, content |-> ContentOf(page)]
    ELSE IF transport = "non200" \/ page.status # 200
            \/ extract_related_pins(page).exc # "none"
    THEN [exc |-> "none", is_none |-> TRUE, content |-> ContentOf(page)]
    ELSE IF ~page.anchor
    THEN [exc |-> "TypeError", is_none |-> TRUE, content |-> ContentOf(page)]
    ELSE [exc |-> "none", is_none |-> FALSE, content |-> ContentOf(page)]

-----------------------------------------------------------------------------
(* main.py: insert_content                                                 *)

DocumentRow(doc_num, pin, date_executed, date_recorded, num_pages, content) ==
    [tbl |-> "documents",
     doc_num |-> doc_num,
     pin |-> pin,
     date_executed |-> date_executed,
     date_recorded |-> date_recorded,
     num_pages |-> num_pages,
     address |-> content.doc_info.address,
     doc_type |-> content.doc_info.document_type,
     consideration_amount |-> content.doc_info.consideration_amount,
     pdf_url |-> content.pdf_url]

RECURSIVE EntityRows(_, _, _, _)
EntityRows(doc_num, pin, status, entity_list) ==
    IF entity_list = <<>> THEN <<>>
    ELSE <<[tbl |-> "entities",
            doc_num |-> doc_num,
            pin |-> pin,
            entity_name |-> Head(entity_list).name,
            entity_status |-> status,
            trust_number |-> Head(entity_list).trust_number]>>
         \o EntityRows(doc_num, pin, status, Tail(entity_list))

RECURSIVE PinRows(_, _, _)
PinRows(doc_num, pin, related) ==
    IF related = <<>> THEN <<>>
    ELSE <<[tbl |-> "pins", pin |-> pin, doc_num |-> doc_num,
            related_pin |-> Head(related)]>>
         \o PinRows(doc_num, pin, Tail(related))

RECURSIVE PriorDocRows(_, _)
PriorDocRows(doc_num, prior) ==
    IF prior = <<>> THEN <<>>
    ELSE <<[tbl |-> "prior_docs", doc_num |-> doc_num,
            prior_doc_num |-> Head(prior)]>>
         \o PriorDocRows(doc_num, Tail(prior))

\* insert_content(session, pin, content): the rows added to the session and
\* the exception raised, if any.  The rows added before the exception stay
\* in the session: insert_content logs and re-raises, it removes nothing.
insert_content(sess, pin, content) ==
    LET info == content.doc_info
        executed == parse_optional_date(info.date_executed)
        recorded == parse_optional_date(info.date_recorded)
        pages == py_int(info.num_pages)
        cleaned == clean_pin(pin)
        doc == DocumentRow(info.document_number, cleaned, executed.date,
                           recorded.date, pages.value, content)
        grantors == EntityRows(info.document_number, cleaned, "grantor",
                               content.entities.grantors.data)
        grantees == EntityRows(info.document_number, cleaned, "grantee",
                               content.entities.grantees.data)
        related == PinRows(info.document_number, cleaned, content.related_pins)
        prior == PriorDocRows(info.document_number, content.prior_docs)
    IN  IF ~info.is_dict THEN [exc |-> "TypeError", session |-> sess]
        ELSE IF info.document_number = Absent THEN [exc |-> "KeyError", session |-> sess]
        ELSE IF cleaned = AssertionError THEN [exc |-> "AssertionError", session |-> sess]
        ELSE IF executed.exc # "none" THEN [exc |-> executed.exc, session |-> sess]
        ELSE IF recorded.exc # "none" THEN [exc |-> recorded.exc, session |-> sess]
        ELSE IF pages.exc # "none" THEN [exc |-> pages.exc, session |-> sess]
        ELSE IF info.document_type = Absent THEN [exc |-> "KeyError", session |-> sess]
        ELSE IF content.entities.grantors.is_none
             THEN [exc |-> "TypeError", session |-> Append(sess, doc)]
        ELSE IF content.entities.grantees.is_none
             THEN [exc |-> "TypeError", session |-> Append(sess, doc) \o grantors]
        ELSE [exc |-> "none",
              session |-> Append(sess, doc) \o grantors \o grantees \o related \o prior]

-----------------------------------------------------------------------------
(* models.py: the constraints the database enforces at flush               *)

DocKey(r) == r.doc_num
EntityKey(r) == <<r.doc_num, r.entity_name, r.entity_status>>
PinKey(r) == <<r.doc_num, r.pin, r.related_pin>>
PriorDocKey(r) == <<r.doc_num, r.prior_doc_num>>

\* The key the table's UniqueConstraint is declared on.
KeyOf(r) ==
    CASE r.tbl = "documents" -> DocKey(r)
      [] r.tbl = "entities" -> EntityKey(r)
      [] r.tbl = "pins" -> PinKey(r)
      [] r.tbl = "prior_docs" -> PriorDocKey(r)

\* The unique constraints of Document, Entity, Pin and PriorDoc: no two rows
\* of a table agree on its key.
UniqueConstraints(rows) ==
    \A i, j \in 1..Len(rows) :
        (rows[i].tbl = rows[j].tbl /\ KeyOf(rows[i]) = KeyOf(rows[j])) => i = j

\* Columns mapped without Optional are NOT NULL.
NotNullConstraints(rows) ==
    \A i \in 1..Len(rows) :
        rows[i].tbl = "documents" =>
            /\ rows[i].date_recorded # NullDate
            /\ rows[i].doc_num # None
            /\ rows[i].doc_type # None

\* Entity.doc_num, Pin.doc_num and PriorDoc.doc_num reference documents.doc_num.
ForeignKeys(rows) ==
    \A i \in 1..Len(rows) :
        rows[i].tbl # "documents" =>
            \E j \in 1..Len(rows) :
                rows[j].tbl = "documents" /\ rows[j].doc_num = rows[i].doc_num

\* SIMILAR TO '[0-9]{14}'
Similar14Digits(text) ==
    /\ Len(text) = PinLen
    /\ \A i \in 1..Len(text) : text[i] \in AsciiDigits

\* The check constraints in effect.  Document, Entity and Pin each define
\* __table_args__, which replaces the one of PinFormatMixin: ck_pin_format
\* is on no table, ck_related_pin_format is on pins.
CheckConstraints(rows) ==
    \A i \in 1..Len(rows) :
        /\ rows[i].tbl = "pins" => Similar14Digits(rows[i].related_pin)
        /\ rows[i].tbl = "entities" => rows[i].entity_status \in {"grantor", "grantee"}

\* The flush of the session on top of the committed rows raises
\* IntegrityError unless every constraint holds.
FlushOk(committed, sess) ==
    /\ UniqueConstraints(committed \o sess)
    /\ NotNullConstraints(sess)
    /\ CheckConstraints(sess)
    /\ ForeignKeys(committed \o sess)

-----------------------------------------------------------------------------
(* main.py: the __main__ block and scrape_pin                              *)

\* len(URL_TEMPLATES)
NumTemplates == 8

RECURSIVE SeqsUpTo(_, _)
\* The sequences of at most n elements of S.
SeqsUpTo(S, n) ==
    IF n = 0 THEN {<<>>}
    ELSE LET shorter == SeqsUpTo(S, n - 1)
         IN  shorter \cup {Append(q, x) : q \in shorter, x \in S}

\* What the checks observe of the PIN being processed and of the past.
NewPinHist(h) ==
    [attempted |-> <<>>,          \* doc_pathnames given to scrape_doc_page
     raised |-> {},               \* those whose extraction or load raised
     returnedNone |-> {},         \* those for which scrape_doc_page returned None
     inserted |-> {},             \* those whose content was given to insert_content
     response |-> "none",         \* how the last detail page request was answered
     commitCalled |-> FALSE,      \* db_session.commit() was called
     commit |-> "none",           \* "ok" or "rollback"
     db |-> "none",               \* what the database connection did at commit
     pre |-> <<>>,                \* the committed rows when commit was called
     sess |-> <<>>,               \* the session when commit was called
     okPins |-> h.okPins,         \* ledger lines of the PINs committed so far
     loaded |-> h.loaded,         \* the rows committed so far
     stopped |-> h.stopped,       \* why the run stopped early, if it did
     loads |-> h.loads,           \* loads of this metadata.json that committed
     lpre |-> h.lpre,             \* lstore when the last of them began
     lexc |-> h.lexc,             \* the exception of the last load, or "none"
     log |-> h.log,               \* the requests, writes, commits and ledger
                                  \* appends of this run, in order
     pdfCalls |-> h.pdfCalls]     \* the (pin, doc_num) given to download_pdf

NoHist == [okPins |-> {}, loaded |-> {}, stopped |-> "no", loads |-> 0, lpre |-> <<>>,
           lexc |-> "none", log |-> <<>>, pdfCalls |-> {}]

\* An entry of the log: what was done, in which iteration of the loop over
\* the PINs, for which PIN and for which page or document.
Event(op, iter, pin, doc) == [op |-> op, iter |-> iter, pin |-> pin, doc |-> doc]

\* data/metadata.json before the first run of scraper.py.
NoFile == [written |-> FALSE, data |-> <<>>]

NoLocals ==
    /\ todo' = <<>>
    /\ idx' = 1
    /\ cleaned_pin' = <<>>
    /\ tmpl' = 1
    /\ url_pathnames' = <<>>
    /\ doc_pathnames' = <<>>
    /\ docIdx' = 1
    /\ session' = <<>>

Init ==
    /\ program \in {"main", "scraper"}
    /\ pins_csv \in {File(FALSE, <<>>)}
                    \cup {File(TRUE, lines) : lines \in SeqsUpTo(RawPins, MaxPins)}
    /\ data = <<>>
    /\ files = {}
    /\ metadata = NoFile
    /\ lstore = <<>>
    /\ loader = "none"
    /\ ledgerExists = FALSE
    /\ ledger = <<>>
    /\ pc = "start"
    /\ todo = <<>>
    /\ idx = 1
    /\ cleaned_pin = <<>>
    /\ tmpl = 1
    /\ url_pathnames = <<>>
    /\ doc_pathnames = <<>>
    /\ docIdx = 1
    /\ session = <<>>
    /\ store = <<>>
    /\ runs = 1
    /\ faults = 0
    /\ hist = NewPinHist(NoHist)
    /\ inp = <<>>
    /\ out = <<>>

\* The outcomes the environment may give to a request: a failure only while
\* the failure budget lasts.
Outcomes(failures) == {"ok"} \cup (IF faults < MaxFaults THEN failures ELSE {})

Charge(outcome) == faults' = IF outcome = "ok" THEN faults ELSE faults + 1

\* pins = get_pins_to_scrape(); an AssertionError ends the program.
GetPins ==
    /\ pc = "start"
    /\ program = "main"
    /\ LET r == get_pins_to_scrape(pins_csv, File(ledgerExists, ledger))
       IN  /\ todo' = r.pins
           /\ pc' = IF r.exc = "none" THEN "loop" ELSE "crashed"
           /\ hist' = [hist EXCEPT !.stopped =
                          IF r.exc = "none" THEN "no" ELSE "get_pins_to_scrape"]
    /\ idx' = 1
    /\ UNCHANGED <<pins_csv, ledgerExists, ledger, cleaned_pin, tmpl,
                   url_pathnames, doc_pathnames, docIdx, session, store, runs,
                   faults, inp, out>>
    /\ UNCHANGED scraperVars

\* for pin in pins: scrape_pin(SessionLocal, pin) up to the discovery.
\* clean_pin is called outside every try: its AssertionError ends the program.
ScrapePin ==
    /\ pc = "loop"
    /\ program = "main"
    /\ idx <= Len(todo)
    /\ LET c == clean_pin(todo[idx])
       IN  /\ cleaned_pin' = c
           /\ pc' = IF c = AssertionError THEN "crashed" ELSE "discover"
           /\ hist' = [NewPinHist(hist) EXCEPT !.stopped =
                          IF c = AssertionError THEN "clean_pin" ELSE "no"]
    /\ tmpl' = 1
    /\ url_pathnames' = <<>>
    /\ doc_pathnames' = <<>>
    /\ docIdx' = 1
    /\ session' = <<>>
    /\ UNCHANGED <<pins_csv, ledgerExists, ledger, todo, idx, store, runs,
                   faults, inp, out>>
    /\ UNCHANGED scraperVars

\* The for loop of the __main__ block is exhausted.
Finish ==
    /\ pc = "loop"
    /\ program = "main"
    /\ idx > Len(todo)
    /\ pc' = "done"
    /\ UNCHANGED <<pins_csv, ledgerExists, ledger, todo, idx, cleaned_pin, tmpl,
                   url_pathnames, doc_pathnames, docIdx, session, store, runs,
                   faults, hist, inp, out>>
    /\ UNCHANGED scraperVars

\* One iteration of the loop of retrieve_doc_page_urls, and after the last
\* one remove_duplicates and session().  The response is parsed whatever its
\* status (a page without "View" anchors adds nothing); an exception of
\* requests.get is caught nowhere and ends the program.
RetrieveTemplate ==
    /\ pc = "discover"
    /\ program = "main"
    /\ \E outcome \in Outcomes({"non200", "raise"}) :
        /\ Charge(outcome)
        /\ IF outcome = "raise"
           THEN /\ pc' = "crashed"
                /\ hist' = [hist EXCEPT
                               !.stopped = "retrieve_doc_page_urls",
                               !.log = Append(@, Event("search", idx, cleaned_pin, "results"))]
                /\ UNCHANGED <<tmpl, url_pathnames, doc_pathnames>>
           ELSE LET found == IF outcome = "ok" THEN View(cleaned_pin, tmpl) ELSE <<>>
                    urls == url_pathnames \o found
                IN  /\ url_pathnames' = urls
                    /\ hist' = [hist EXCEPT
                          !.log = Append(@, Event("search", idx, cleaned_pin, "results"))]
                    /\ IF tmpl = NumTemplates
                       THEN /\ doc_pathnames' = remove_duplicates(urls)
                            /\ pc' = "extract"
                            /\ tmpl' = tmpl
                       ELSE /\ tmpl' = tmpl + 1
                            /\ UNCHANGED <<doc_pathnames, pc>>
    /\ docIdx' = 1
    /\ session' = <<>>
    /\ UNCHANGED <<pins_csv, ledgerExists, ledger, todo, idx, cleaned_pin,
                   store, runs, inp, out>>
    /\ UNCHANGED scraperVars

\* An except clause that names AssertionError only.
inner_catches_assertion_only(exc) == exc = "AssertionError"

\* except Exception catches every exception a document can raise.
inner_catches(exc) == exc # "none"

\* continue: the loop goes on with the next doc_pathname.
next_doc(i, n, exc) == i + 1

\* One iteration of the loop over doc_pathnames: scrape_doc_page, then
\* insert_content unless it returned None.  An exception is caught and the
\* loop continues; one that were not caught would reach the outer except:
\* rollback, return.
ScrapeDoc ==
    /\ pc = "extract"
    /\ program = "main"
    /\ docIdx <= Len(doc_pathnames)
    /\ \E transport \in Outcomes({"non200", "raise"}) :
        /\ Charge(transport)
        /\ \E d \in {scrape_doc_page(PageOf(doc_pathnames[docIdx]), transport)} :
           \E ins \in {IF d.exc = "none" /\ ~d.is_none
                        THEN insert_content(session, todo[idx], d.content)
                        ELSE [exc |-> d.exc, session |-> session]} :
           LET href == doc_pathnames[docIdx]
               seen == [hist EXCEPT
                           !.log = Append(@, Event("page", idx, cleaned_pin, href)),
                           !.attempted = Append(@, href),
                           !.response = transport,
                           !.inserted = IF d.exc = "none" /\ ~d.is_none
                                        THEN @ \cup {href} ELSE @,
                           !.raised = IF ins.exc = "none" THEN @ ELSE @ \cup {href},
                           !.returnedNone = IF d.exc = "none" /\ d.is_none
                                            THEN @ \cup {href} ELSE @]
           IN  IF ins.exc = "none" \/ inner_catches(ins.exc)
               THEN /\ session' = ins.session
                    /\ docIdx' = next_doc(docIdx, Len(doc_pathnames), ins.exc)
                    /\ hist' = seen
                    /\ pc' = pc
               ELSE /\ session' = <<>>
                    /\ docIdx' = docIdx
                    /\ hist' = [seen EXCEPT !.commit = "rollback"]
                    /\ pc' = "append"
    /\ UNCHANGED <<pins_csv, ledgerExists, ledger, todo, idx, cleaned_pin, tmpl,
                   url_pathnames, doc_pathnames, store, runs, inp, out>>
    /\ UNCHANGED scraperVars

\* The flush without the unique constraints.
flush_ok_no_unique(committed, sess) ==
    NotNullConstraints(sess) /\ ForeignKeys(committed \o sess)

\* A flush that fails when the session holds no row.
flush_ok_rejects_empty(committed, sess) ==
    sess # <<>> /\ FlushOk(committed, sess)

\* The flush that db_session.commit() performs.
flush_ok(committed, sess) == FlushOk(committed, sess)

\* db_session.commit() after the loop: the rows of the session are inserted
\* in one transaction.  IntegrityError or a failure of the connection is
\* caught by the outer except: rollback, return.  scrape_pin returns None
\* either way.
Commit ==
    /\ pc = "extract"
    /\ program = "main"
    /\ docIdx > Len(doc_pathnames)
    /\ \E db \in Outcomes({"raise"}) :
        /\ Charge(db)
        /\ LET ok == db = "ok" /\ flush_ok(store, session)
           IN  /\ store' = IF ok THEN store \o session ELSE store
               /\ hist' = [hist EXCEPT
                              !.log = Append(@, Event("commit", idx, cleaned_pin, "")),
                              !.commitCalled = TRUE,
                              !.commit = IF ok THEN "ok" ELSE "rollback",
                              !.db = db,
                              !.pre = store,
                              !.sess = session,
                              !.okPins = IF ok THEN @ \cup {todo[idx]} ELSE @,
                              !.loaded = IF ok THEN @ \cup SeqToSet(session) ELSE @]
    /\ session' = <<>>
    /\ pc' = "append"
    /\ UNCHANGED <<pins_csv, ledgerExists, ledger, todo, idx, cleaned_pin, tmpl,
                   url_pathnames, doc_pathnames, docIdx, runs, inp, out>>
    /\ UNCHANGED scraperVars

\* file.write(f"{pin}\n") on data/completed_pins.csv opened for appending,
\* whatever scrape_pin did.
AppendLedger ==
    /\ pc = "append"
    /\ program = "main"
    /\ ledger' = Append(ledger, todo[idx])
    /\ ledgerExists' = TRUE
    /\ idx' = idx + 1
    /\ pc' = "loop"
    /\ hist' = [hist EXCEPT !.log = Append(@, Event("append", idx, cleaned_pin, ""))]
    /\ UNCHANGED <<pins_csv, todo, cleaned_pin, tmpl, url_pathnames,
                   doc_pathnames, docIdx, session, store, runs, faults,
                   inp, out>>
    /\ UNCHANGED scraperVars

-----------------------------------------------------------------------------
(* scraper.py: class Scraper                                               *)

\* A dict is the sequence of its entries in insertion order.
KeyIndex(d, k) ==
    IF \E i \in 1..Len(d) : d[i].key = k
    THEN CHOOSE i \in 1..Len(d) : d[i].key = k
    ELSE 0

\* d[k] = v: a new key is added last, a key the dict holds keeps its place.
DictSet(d, k, v) ==
    IF KeyIndex(d, k) = 0 THEN Append(d, [key |-> k, value |-> v])
    ELSE [d EXCEPT ![KeyIndex(d, k)].value = v]

DictGet(d, k) == d[KeyIndex(d, k)].value

\* The row of the result table for a document after process_records,
\* make_snake_case and the renaming of view_doc to url.  The url is kept as
\* its path under base_url.
ResultRow(href) ==
    [doc_number |-> PageOf(href).document_number,
     doc_recorded |-> PageOf(href).date_recorded,
     doc_executed |-> PageOf(href).date_executed,
     doc_type |-> PageOf(href).document_type,
     url |-> href]

\* pd.read_html(...)[0] of the result page of template t.
read_html(pin, t) == [i \in 1..Len(View(pin, t)) |-> ResultRow(View(pin, t)[i])]

\* doc_metadata.drop_duplicates(): the first of equal rows stays.
drop_duplicates(rows) == fromkeys(rows, <<>>)

\* A doc of self.data after doc.pop('doc_number'): the columns of the result
\* table; the keys extract_from_doc_urls adds are empty until it adds them.
NewDoc(row) ==
    [doc_recorded |-> row.doc_recorded,
     doc_executed |-> row.doc_executed,
     doc_type |-> row.doc_type,
     url |-> row.url,
     pdf_url |-> <<>>,
     pdf_path |-> <<>>,
     doc_page |-> <<>>,
     entities |-> <<>>]

RECURSIVE register_docs(_, _)
\* for doc in pin_doc_metadata: self.data[pin]['docs'][doc_num] = doc
register_docs(docs, rows) ==
    IF rows = <<>> THEN docs
    ELSE register_docs(DictSet(docs, Head(rows).doc_number, NewDoc(Head(rows))),
                       Tail(rows))

RECURSIVE DocPositions(_)
\* The (pin, doc) pairs in the order of the two loops of extract_from_doc_urls.
DocPositions(d) ==
    IF d = <<>> THEN <<>>
    ELSE [i \in 1..Len(Head(d).value) |-> <<Head(d).key, Head(d).value[i].key>>]
         \o DocPositions(Tail(d))

\* download_pdf that asks the network whether or not the file exists.
download_pdf_always_requests(doc, path, onDisk, response) ==
    IF response = "raise"
    THEN [exc |-> "ConnectionError", doc |-> doc, files |-> onDisk,
          requested |-> TRUE, written |-> FALSE]
    ELSE IF response = "non200"
    THEN [exc |-> "AttributeError", doc |-> doc, files |-> onDisk,
          requested |-> TRUE, written |-> FALSE]
    ELSE [exc |-> "none", doc |-> [doc EXCEPT !.pdf_path = path],
          files |-> onDisk \cup {path}, requested |-> TRUE, written |-> TRUE]

\* download_pdf(url, pin, doc_num): a file that exists is not requested
\* again, and its path is recorded as the doc's pdf_path.  When the status
\* is not 200 the message of the assertion reads response.stauts_code, which
\* raises AttributeError.  "requested" tells that requests.get was called
\* and "written" that the file was opened for writing.
download_pdf(doc, path, onDisk, response) ==
    IF path \in onDisk
    THEN [exc |-> "none", doc |-> [doc EXCEPT !.pdf_path = path], files |-> onDisk,
          requested |-> FALSE, written |-> FALSE]
    ELSE IF response = "raise"
    THEN [exc |-> "ConnectionError", doc |-> doc, files |-> onDisk,
          requested |-> TRUE, written |-> FALSE]
    ELSE IF response = "non200"
    THEN [exc |-> "AttributeError", doc |-> doc, files |-> onDisk,
          requested |-> TRUE, written |-> FALSE]
    ELSE [exc |-> "none", doc |-> [doc EXCEPT !.pdf_path = path],
          files |-> onDisk \cup {path}, requested |-> TRUE, written |-> TRUE]

\* extract_info_table(info_table, pin, doc): no label of the page is a key
\* of the doc, so every value is stored under 'doc_page_' + key.
extract_info_table(doc, page) ==
    [doc EXCEPT !.doc_page = <<[document_number |-> page.document_number,
                                date_executed |-> page.date_executed,
                                date_recorded |-> page.date_recorded,
                                num_pages |-> page.num_pages,
                                address |-> page.address,
                                document_type |-> page.document_type,
                                consideration_amount |-> page.consideration_amount]>>]

\* extract_table_data of extract_grantor_grantee_tables: a list in every case.
extract_table_rows(sec) ==
    IF ~sec.heading \/ ~sec.table THEN <<>>
    ELSE IF sec.tbody THEN table_rows(sec.rows) ELSE <<>>

extract_grantor_grantee_tables(page) ==
    [grantors |-> extract_table_rows(page.grantors),
     grantees |-> extract_table_rows(page.grantees)]

\* The body of the loops of extract_from_doc_urls for one doc.  "at" names
\* the expression that raised and "pdf" what download_pdf did, if it was
\* called: "skip" (the file exists), "get" (requested, nothing written) or
\* "write" (requested and written).
extract_from_doc_url(doc, pin, doc_num, onDisk, response, pdf_response) ==
    LET page == PageOf(doc.url)
        withUrl == [doc EXCEPT !.pdf_url = <<BASE_URL, page.pdf>>]
        dl == download_pdf(withUrl, <<pin, doc_num>>, onDisk, pdf_response)
        did == IF dl.written THEN "write"
               ELSE IF dl.requested THEN "get" ELSE "skip"
    IN  IF response = "raise"
        THEN [exc |-> "ConnectionError", at |-> "requests.get", doc |-> doc,
              files |-> onDisk, pdf |-> "no"]
        ELSE IF response = "non200"
        THEN [exc |-> "AssertionError", at |-> "status_code", doc |-> doc,
              files |-> onDisk, pdf |-> "no"]
        ELSE IF ~page.anchor
        THEN [exc |-> "AttributeError", at |-> "tag.get", doc |-> doc,
              files |-> onDisk, pdf |-> "no"]
        ELSE IF dl.exc # "none"
        THEN [exc |-> dl.exc, at |-> "download_pdf", doc |-> dl.doc,
              files |-> dl.files, pdf |-> did]
        ELSE IF ~page.info
        THEN [exc |-> "AttributeError", at |-> "soup.fieldset", doc |-> dl.doc,
              files |-> dl.files, pdf |-> did]
        ELSE [exc |-> "none", at |-> "none",
              doc |-> [extract_info_table(dl.doc, page) EXCEPT
                          !.entities = <<extract_grantor_grantee_tables(page)>>],
              files |-> dl.files, pdf |-> did]

\* A download is requested for a page that was served with its anchor and
\* whose file is not on disk.
Downloads(doc, path, response) ==
    response = "ok" /\ PageOf(doc.url).anchor /\ path \notin files

RECURSIVE LexLess(_, _)
\* a < b for two strings of ASCII digits.
LexLess(a, b) ==
    IF b = <<>> THEN FALSE
    ELSE IF a = <<>> THEN TRUE
    ELSE IF Head(a) = Head(b) THEN LexLess(Tail(a), Tail(b))
    ELSE DigitValue(Head(a)) < DigitValue(Head(b))

\* The document numbers of the portal, in the order of str.__lt__.
DocNumOrder == <<"D0", "D1", "D10", "D11", "D12", "D13", "D14", "D2", "D3",
                 "D4", "D5", "D6", "D7", "D8", "D9">>

StrLess(a, b) ==
    (CHOOSE i \in 1..Len(DocNumOrder) : DocNumOrder[i] = a)
        < (CHOOSE i \in 1..Len(DocNumOrder) : DocNumOrder[i] = b)

RECURSIVE InsertDoc(_, _)
InsertDoc(sorted, e) ==
    IF sorted = <<>> THEN <<e>>
    ELSE IF StrLess(e.key, Head(sorted).key) THEN <<e>> \o sorted
    ELSE <<Head(sorted)>> \o InsertDoc(Tail(sorted), e)

RECURSIVE sort_docs(_)
sort_docs(d) ==
    IF d = <<>> THEN <<>>
    ELSE InsertDoc(sort_docs(SubSeq(d, 1, Len(d) - 1)), d[Len(d)])

RECURSIVE InsertPin(_, _)
InsertPin(sorted, e) ==
    IF sorted = <<>> THEN <<e>>
    ELSE IF LexLess(e.key, Head(sorted).key) THEN <<e>> \o sorted
    ELSE <<Head(sorted)>> \o InsertPin(Tail(sorted), e)

RECURSIVE sort_pins(_)
sort_pins(d) ==
    IF d = <<>> THEN <<>>
    ELSE InsertPin(sort_pins(SubSeq(d, 1, Len(d) - 1)), d[Len(d)])

\* json.dump(self.data, file, indent=4, sort_keys=True)
json_dump(d) ==
    [written |-> TRUE,
     data |-> sort_pins([i \in 1..Len(d) |->
                            [key |-> d[i].key, value |-> sort_docs(d[i].value)]])]

\* s.scrape(pins) up to the loop: an empty list is replaced by the default PIN.
ScraperStart ==
    /\ pc = "start"
    /\ program = "scraper"
    /\ todo' = IF pins_csv.lines = <<>> THEN <<PinA>> ELSE pins_csv.lines
    /\ idx' = 1
    /\ pc' = "loop"
    /\ UNCHANGED <<program, loader, pins_csv, cleaned_pin, tmpl,
                   url_pathnames, docIdx, runs, faults, data, files,
                   metadata, lstore, hist, inp, out>>
    /\ UNCHANGED ormVars

\* for pin in pins: clean_pin and initialize_pin.  The AssertionError of
\* clean_pin is caught nowhere.
ScraperPin ==
    /\ pc = "loop"
    /\ program = "scraper"
    /\ idx <= Len(todo)
    /\ LET c == clean_pin(todo[idx])
       IN  /\ cleaned_pin' = c
           /\ pc' = IF c = AssertionError THEN "crashed" ELSE "discover"
           /\ data' = IF c = AssertionError THEN data ELSE DictSet(data, c, <<>>)
           /\ hist' = [hist EXCEPT !.stopped =
                          IF c = AssertionError THEN "clean_pin" ELSE "no"]
    /\ tmpl' = 1
    /\ url_pathnames' = <<>>
    /\ docIdx' = 1
    /\ UNCHANGED <<program, loader, pins_csv, todo, idx, runs, faults, files,
                   metadata, lstore, inp, out>>
    /\ UNCHANGED ormVars

\* One iteration of the loop of collect_doc_metadata, and after the last one
\* drop_duplicates, the registration of the docs in self.data and the call
\* of extract_from_doc_urls.  An exception of requests.get, and the
\* ValueError of pd.read_html on a page without a table, are caught nowhere.
CollectTemplate ==
    /\ pc = "discover"
    /\ program = "scraper"
    /\ \E outcome \in Outcomes({"non200", "raise"}) :
        /\ Charge(outcome)
        /\ IF outcome # "ok"
           THEN /\ pc' = "crashed"
                /\ hist' = [hist EXCEPT
                               !.stopped = "collect_doc_metadata",
                               !.log = Append(@, Event("search", idx, cleaned_pin, "results"))]
                /\ UNCHANGED <<tmpl, url_pathnames, data>>
           ELSE LET doc_metadata == url_pathnames \o read_html(cleaned_pin, tmpl)
                IN  /\ url_pathnames' = doc_metadata
                    /\ hist' = [hist EXCEPT
                          !.log = Append(@, Event("search", idx, cleaned_pin, "results"))]
                    /\ IF tmpl = NumTemplates
                       THEN /\ data' = DictSet(data, cleaned_pin,
                                   register_docs(DictGet(data, cleaned_pin),
                                                 drop_duplicates(doc_metadata)))
                            /\ pc' = "extract"
                            /\ tmpl' = tmpl
                       ELSE /\ tmpl' = tmpl + 1
                            /\ UNCHANGED <<data, pc>>
    /\ docIdx' = 1
    /\ UNCHANGED <<program, loader, pins_csv, todo, idx, cleaned_pin, runs,
                   files, metadata, lstore, inp, out>>
    /\ UNCHANGED ormVars

\* One iteration of the loops of extract_from_doc_urls, which run over every
\* PIN of self.data, with the page answered by response and the PDF by
\* pdf_response.  Only AssertionError is caught.
ExtractDocWith(response, pdf_response) ==
    /\ pc = "extract"
    /\ program = "scraper"
    /\ docIdx <= Len(DocPositions(data))
    /\ LET pin == DocPositions(data)[docIdx][1]
           doc_num == DocPositions(data)[docIdx][2]
           doc == DictGet(DictGet(data, pin), doc_num)
       IN  /\ pdf_response # "ok" => Downloads(doc, <<pin, doc_num>>, response)
           /\ LET r == extract_from_doc_url(doc, pin, doc_num, files,
                                             response, pdf_response)
                   seen == [hist EXCEPT
                       !.pdfCalls = IF r.pdf = "no" THEN @ ELSE @ \cup {<<pin, doc_num>>},
                       !.log = Append(@, Event("page", idx, pin, doc.url))
                               \o (CASE r.pdf = "no" -> <<>>
                                     [] r.pdf = "skip" -> <<Event("skip", idx, pin, doc_num)>>
                                     [] r.pdf = "get" -> <<Event("pdf", idx, pin, doc_num)>>
                                     [] r.pdf = "write" -> <<Event("pdf", idx, pin, doc_num),
                                                            Event("write", idx, pin, doc_num)>>)]
               IN  /\ faults' = faults + (IF response = "ok" THEN 0 ELSE 1)
                                       + (IF pdf_response = "ok" THEN 0 ELSE 1)
                   /\ files' = r.files
                   /\ data' = DictSet(data, pin,
                                  DictSet(DictGet(data, pin), doc_num, r.doc))
                   /\ IF r.exc \in {"none", "AssertionError"}
                      THEN /\ docIdx' = docIdx + 1
                           /\ hist' = seen
                           /\ pc' = pc
                      ELSE /\ pc' = "crashed"
                           /\ hist' = [seen EXCEPT !.stopped = r.at]
                           /\ docIdx' = docIdx
    /\ UNCHANGED <<program, loader, pins_csv, todo, idx, cleaned_pin, tmpl,
                   url_pathnames, runs, metadata, lstore, inp, out>>
    /\ UNCHANGED ormVars

ExtractDoc ==
    \E response \in Outcomes({"non200", "raise"}) :
        \E pdf_response \in Outcomes({"non200", "raise"}) :
            ExtractDocWith(response, pdf_response)

\* extract_from_doc_urls returns: the loop of scrape goes on.
ExtractDone ==
    /\ pc = "extract"
    /\ program = "scraper"
    /\ docIdx > Len(DocPositions(data))
    /\ idx' = idx + 1
    /\ pc' = "loop"
    /\ UNCHANGED <<program, loader, pins_csv, todo, cleaned_pin, tmpl,
                   url_pathnames, docIdx, runs, faults, data, files,
                   metadata, lstore, hist, inp, out>>
    /\ UNCHANGED ormVars

\* After the loop of scrape: self.data is written to data/metadata.json.
ScraperDump ==
    /\ pc = "loop"
    /\ program = "scraper"
    /\ idx > Len(todo)
    /\ metadata' = json_dump(data)
    /\ hist' = [hist EXCEPT !.loads = 0, !.lpre = <<>>]
    /\ pc' = "done"
    /\ UNCHANGED <<program, loader, pins_csv, todo, idx, cleaned_pin, tmpl,
                   url_pathnames, docIdx, runs, faults, data, files, lstore,
                   inp, out>>
    /\ UNCHANGED ormVars

-----------------------------------------------------------------------------
(* load_scraped_data.py and the schema of initialize_postgres.py           *)

RECURSIVE strip(_)
\* str.strip() of a string of digits, slashes and blanks.
strip(s) ==
    IF s = <<>> THEN <<>>
    ELSE IF Head(s) = " " THEN strip(Tail(s))
    ELSE IF s[Len(s)] = " " THEN strip(SubSeq(s, 1, Len(s) - 1))
    ELSE s

\* parse_date(date_str): None for a missing, blank or unparsable date.
parse_date(date_str) ==
    IF date_str \in {NoneS, AbsentS, <<>>} \/ strip(date_str) = <<>>
    THEN NullDate
    ELSE IF strptime(strip(date_str)).exc = "none"
         THEN strptime(strip(date_str)).date
         ELSE NullDate

\* str.replace(old, ''): the string without the character old.
replace(s, old) == SelectSeq(s, LAMBDA c : c # old)

\* A float that a short decimal literal denotes: mant / 10^places, places
\* being as small as the value allows.
Float(mant, places) == [mant |-> mant, places |-> places]

RECURSIVE Normal(_)
\* The digits after the point without their trailing zeros.
Normal(frac) ==
    IF frac # <<>> /\ frac[Len(frac)] = "0"
    THEN Normal(SubSeq(frac, 1, Len(frac) - 1))
    ELSE frac

\* float(s) for a string of ASCII digits, points and other characters:
\* digits with at most one point and at least one digit; ValueError
\* otherwise.
py_float(s) ==
    LET points == {i \in 1..Len(s) : s[i] = "."}
        point == IF points = {} THEN Len(s) + 1 ELSE CHOOSE i \in points : TRUE
        whole == SubSeq(s, 1, point - 1)
        frac == Normal(SubSeq(s, point + 1, Len(s)))
    IN  IF /\ Cardinality(points) <= 1
           /\ \A i \in 1..Len(s) : s[i] \in AsciiDigits \cup {"."}
           /\ Len(s) > Cardinality(points)
        THEN [exc |-> "none",
              value |-> Float(DigitsValue(whole \o frac), Len(frac))]
        ELSE [exc |-> "ValueError", value |-> Float(0, 0)]

\* parse_consideration_amount that leaves the commas in.
parse_consideration_amount_keeps_commas(amount_str) ==
    IF amount_str \in {NoneS, <<>>} \/ strip(amount_str) = <<>>
    THEN Float(0, 0)
    ELSE LET cleaned_amount == strip(replace(amount_str, "$"))
         IN  IF py_float(cleaned_amount).exc = "none"
             THEN py_float(cleaned_amount).value
             ELSE Float(0, 0)

\* parse_consideration_amount(amount_str): 0.0 for a missing or blank
\* string and for one float() rejects.
parse_consideration_amount(amount_str) ==
    IF amount_str \in {NoneS, <<>>} \/ strip(amount_str) = <<>>
    THEN Float(0, 0)
    ELSE LET cleaned_amount == strip(replace(replace(amount_str, "$"), ","))
         IN  IF py_float(cleaned_amount).exc = "none"
             THEN py_float(cleaned_amount).value
             ELSE Float(0, 0)

\* The two loading scripts.
Scripts == {"load_scraped_data", "scraped_data_to_postgres"}

\* "$0.00", the default of scraped_data_to_postgres.py for the amount.
ZeroDollars == <<"$", "0", ".", "0", "0">>

\* The parameters of insert_doc_query.  The doc holds the number of pages,
\* the address and the amount under their 'doc_page_' keys.
\* load_scraped_data.py reads 'num_pages', 'address' and
\* 'consideration_amount': all three are None, and the amount parses to 0.0.
\* scraped_data_to_postgres.py reads 'doc_page_address' and
\* 'doc_page_consideration_amount', and int('0') for 'num_pages'.
insert_doc_query(script, pin, doc_num, doc_data) ==
    LET old == script = "scraped_data_to_postgres"
        page == doc_data.doc_page
    IN  [tbl |-> "documents",
         doc_num |-> doc_num,
         pin |-> pin,
         date_executed |-> parse_date(doc_data.doc_executed),
         date_recorded |-> parse_date(doc_data.doc_recorded),
         num_pages |-> IF old THEN 0 ELSE None,
         address |-> IF old /\ page # <<>> THEN page[1].address ELSE None,
         doc_type |-> doc_data.doc_type,
         consideration_amount |->
             IF ~old THEN parse_consideration_amount(NoneS)
             ELSE IF page = <<>> THEN parse_consideration_amount(ZeroDollars)
             ELSE parse_consideration_amount(page[1].consideration_amount),
         page_url |-> doc_data.url,
         pdf_url |-> doc_data.pdf_url,
         pdf_local_path |-> doc_data.pdf_path]

\* The parameters of insert_entity_query for the entries of one list.
insert_entity_query(pin, doc_num, status, entity_list) ==
    [i \in 1..Len(entity_list) |->
        [tbl |-> "entities",
         doc_num |-> doc_num,
         pin |-> pin,
         entity_name |-> entity_list[i].name,
         entity_status |-> status,
         trust_number |-> entity_list[i].trust_number]]

\* entities_data.get(status + 's', []) of a doc.
EntitiesOf(doc_data, status) ==
    IF doc_data.entities = <<>> THEN <<>>
    ELSE IF status = "grantor" THEN doc_data.entities[1].grantors
    ELSE doc_data.entities[1].grantees

\* The local variable grantor of insert_data after the loop over the
\* grantors of a doc: <<>> while no grantor was ever iterated over.
LastGrantor(doc_data, grantor) ==
    IF EntitiesOf(doc_data, "grantor") = <<>> THEN grantor
    ELSE <<EntitiesOf(doc_data, "grantor")[Len(EntitiesOf(doc_data, "grantor"))]>>

\* The statements of insert_data for one doc, in the order it executes them.
\* The loop over the grantees of scraped_data_to_postgres.py reads name and
\* trust_number from the variable grantor: every grantee row carries the
\* last grantor, and the name is unbound if there never was one.
DocStatements(script, pin, doc_num, doc_data, grantor) ==
    LET grantees == EntitiesOf(doc_data, "grantee")
        bound == LastGrantor(doc_data, grantor)
    IN  <<insert_doc_query(script, pin, doc_num, doc_data)>>
        \o insert_entity_query(pin, doc_num, "grantor", EntitiesOf(doc_data, "grantor"))
        \o (IF script = "load_scraped_data"
            THEN insert_entity_query(pin, doc_num, "grantee", grantees)
            ELSE IF grantees = <<>> THEN <<>>
            ELSE IF bound = <<>> THEN <<[tbl |-> "raise", exc |-> "UnboundLocalError"]>>
            ELSE insert_entity_query(pin, doc_num, "grantee",
                                     [i \in 1..Len(grantees) |-> bound[1]]))

RECURSIVE StatementsFrom(_, _, _, _)
\* The statements for the docs at the positions, grantor being the last
\* grantor of the docs before them.
StatementsFrom(script, d, positions, grantor) ==
    IF positions = <<>> THEN <<>>
    ELSE LET pin == Head(positions)[1]
             doc_num == Head(positions)[2]
             doc_data == DictGet(DictGet(d, pin), doc_num)
         IN  DocStatements(script, pin, doc_num, doc_data, grantor)
             \o StatementsFrom(script, d, Tail(positions),
                               LastGrantor(doc_data, grantor))

\* for pin, pin_data in data.items(): for doc_num, doc_data in docs.items()
Statements(script, d) == StatementsFrom(script, d, DocPositions(d), <<>>)

\* The columns declared NOT NULL: by initialize_postgres.py for
\* load_scraped_data.py, by create_tables for scraped_data_to_postgres.py,
\* which adds num_pages (an int in every statement of the script) and
\* address.
NotNull(script, r) ==
    r.tbl = "documents" =>
        /\ r.date_recorded # NullDate
        /\ r.doc_type # None
        /\ r.pdf_url # <<>>
        /\ r.pdf_local_path # <<>>
        /\ (script = "scraped_data_to_postgres" => r.address # None)

\* The columns of ON CONFLICT: (doc_num) for documents, (doc_num, pin,
\* entity_name) for entities.
ConflictKey(r) ==
    IF r.tbl = "documents" THEN <<r.doc_num>>
    ELSE <<r.doc_num, r.pin, r.entity_name>>

Conflicts(rows, r) ==
    \E i \in 1..Len(rows) :
        rows[i].tbl = r.tbl /\ ConflictKey(rows[i]) = ConflictKey(r)

RECURSIVE execute(_, _, _)
\* conn.execute of the statements in one transaction: a NULL in a NOT NULL
\* column raises IntegrityError, and ON CONFLICT ... DO NOTHING leaves out a
\* row whose key the table holds.  rows are the rows the transaction sees
\* when the statements end or one of them raises.
execute(script, rows, stmts) ==
    IF stmts = <<>> THEN [exc |-> "none", rows |-> rows]
    ELSE IF Head(stmts).tbl = "raise" THEN [exc |-> Head(stmts).exc, rows |-> rows]
    ELSE IF ~NotNull(script, Head(stmts))
    THEN [exc |-> "IntegrityError", rows |-> rows]
    ELSE IF Conflicts(rows, Head(stmts))
         THEN execute(script, rows, Tail(stmts))
         ELSE execute(script, Append(rows, Head(stmts)), Tail(stmts))

\* insert_data without trans.rollback(): the rows executed before the
\* exception stay.
insert_data_no_rollback(script, committed, file, db) ==
    IF ~file.written THEN [exc |-> "AttributeError", rows |-> committed]
    ELSE IF db = "raise" THEN [exc |-> "OperationalError", rows |-> committed]
    ELSE execute(script, committed, Statements(script, file.data))

\* insert_data(engine, read_data(path)): read_data returns None when the
\* file is missing and data.items() raises AttributeError; every exception
\* rolls the transaction back and is raised again.
insert_data(script, committed, file, db) ==
    IF ~file.written THEN [exc |-> "AttributeError", rows |-> committed]
    ELSE IF db = "raise" THEN [exc |-> "OperationalError", rows |-> committed]
    ELSE LET run == execute(script, committed, Statements(script, file.data))
         IN  IF run.exc # "none" THEN [exc |-> run.exc, rows |-> committed]
             ELSE run

\* One run of the loading script while scraper.py is not running.
LoadData ==
    /\ pc \in {"done", "crashed"}
    /\ program = "scraper"
    /\ hist.loads < MaxRuns
    /\ \E script \in (IF loader = "none" THEN Scripts ELSE {loader}) :
       \E db \in Outcomes({"raise"}) :
        /\ Charge(db)
        /\ loader' = script
        /\ LET r == insert_data(script, lstore, metadata, db)
           IN  /\ lstore' = r.rows
               /\ hist' = IF r.exc = "none"
                          THEN [hist EXCEPT !.loads = @ + 1, !.lpre = lstore,
                                            !.lexc = r.exc]
                          ELSE [hist EXCEPT !.lexc = r.exc]
    /\ UNCHANGED <<program, pins_csv, pc, todo, idx, cleaned_pin, tmpl,
                   url_pathnames, docIdx, runs, data, files, metadata, inp, out>>
    /\ UNCHANGED ormVars

-----------------------------------------------------------------------------
(* Both programs                                                           *)

\* The program is started again on the same PIN list.
Restart ==
    /\ pc \in {"done", "crashed"}
    /\ runs < MaxRuns
    /\ runs' = runs + 1
    /\ pc' = "start"
    /\ NoLocals
    /\ data' = <<>>
    /\ hist' = NewPinHist([hist EXCEPT !.stopped = "no", !.log = <<>>])
    /\ UNCHANGED <<program, loader, pins_csv, ledgerExists, ledger, store,
                   faults, files, metadata, lstore, inp, out>>

Next ==
    \/ GetPins
    \/ ScrapePin
    \/ Finish
    \/ RetrieveTemplate
    \/ ScrapeDoc
    \/ Commit
    \/ AppendLedger
    \/ ScraperStart
    \/ ScraperPin
    \/ CollectTemplate
    \/ ExtractDoc
    \/ ExtractDone
    \/ ScraperDump
    \/ LoadData
    \/ Restart

Spec == Init /\ [][Next]_vars

-----------------------------------------------------------------------------
(* Properties of the run loop, checked under Spec.                         *)

DocRows(rows) == SelectSeq(rows, LAMBDA r : r.tbl = "documents")

DocNums(rows) == {DocRows(rows)[i].doc_num : i \in 1..Len(DocRows(rows))}

\* The commit of the current PIN held a document whose doc_num was stored.
CommitConflict ==
    hist.commitCalled /\ DocNums(hist.sess) \cap DocNums(hist.pre) # {}

\* C1: a line is appended to the ledger only in a state where the commit of
\* the PIN being processed has succeeded; after a rollback nothing is
\* appended.
C1_AppendOnlyAfterCommit ==
    [][Len(ledger') > Len(ledger) => hist.commit = "ok"]_vars

\* The rows of the store that hold the tuple of row r: its doc_num for a
\* document, all its columns for an entity, a related PIN or a prior document.
Copies(r) ==
    {i \in 1..Len(store) :
        /\ store[i].tbl = r.tbl
        /\ IF r.tbl = "documents" THEN store[i].doc_num = r.doc_num
           ELSE store[i] = r}

\* The rows of the database of initialize_postgres.py that hold the key of
\* statement r of insert_data.
LoaderCopies(r) ==
    {i \in 1..Len(lstore) :
        lstore[i].tbl = r.tbl /\ ConflictKey(lstore[i]) = ConflictKey(r)}

C3_InsertIfAbsent ==
    (pc = "append" /\ CommitConflict /\ hist.db = "ok") =>
        /\ hist.commit = "ok"
        /\ SubSeq(store, 1, Len(hist.pre)) = hist.pre
        /\ DocNums(hist.sess) \subseteq DocNums(store)

\* C4: when the run is over, no PIN of the list after the one processed
\* last is left unprocessed: a PIN that fails normalization or whose
\* discovery raises is skipped and the loop goes on.
C4_BadPinSkipped ==
    (pc \in {"done", "crashed"} /\ hist.stopped # "get_pins_to_scrape") =>
        idx >= Len(todo)

\* C5: an exception of one document ends neither the loop nor the PIN: the
\* pages attempted are always the doc_pathnames up to the current one, and
\* when scrape_pin returns every page was attempted and commit was called.
C5_DocIsolation ==
    /\ (program = "main" /\ pc = "extract") =>
           hist.attempted = SubSeq(doc_pathnames, 1, docIdx - 1)
    /\ pc = "append" => hist.attempted = doc_pathnames /\ hist.commitCalled

\* The pages whose load raises: strptime refuses the date.
LoadRaises(h) == parse_optional_date(PageOf(h).date_executed).exc # "none"

\* A load raised, an extraction raised, a later page was loaded and commit
\* was called.
C5_Witness ==
    /\ pc = "append"
    /\ hist.commitCalled
    /\ \E i, j \in 1..Len(hist.attempted) :
        /\ i < j
        /\ hist.attempted[i] \in hist.raised
        /\ hist.attempted[j] \notin hist.raised
    /\ \E h \in hist.raised : LoadRaises(h)
    /\ \E h \in hist.raised : ~LoadRaises(h)

\* The pages of the current PIN that lack the PDF anchor.
NoAnchor == {h \in SeqToSet(doc_pathnames) : ~PageOf(h).anchor}

\* Their well-formed siblings that were served and raised nothing.
Siblings ==
    {h \in SeqToSet(doc_pathnames) :
        /\ PageOf(h) = GoodPage(PageOf(h).document_number)
        /\ h \notin hist.raised \cup hist.returnedNone}

\* scrape_pin: when it returns for a PIN with a page that lacks the PDF
\* anchor, that page raised, every well-formed sibling was extracted, its
\* document was in the session that commit was called on, and it is stored
\* if the commit succeeded.
AnchorIsolatedInScrapePin ==
    (pc = "append" /\ NoAnchor # {}) =>
        /\ NoAnchor \subseteq hist.raised \cup hist.returnedNone
        /\ hist.commitCalled
        /\ \A h \in Siblings :
            /\ h \in SeqToSet(hist.attempted)
            /\ PageOf(h).document_number \in DocNums(hist.sess)
            /\ hist.commit = "ok" => PageOf(h).document_number \in DocNums(store)

\* C6: a detail page without the PDF anchor fails alone: in scrape_pin its
\* siblings are extracted and committed, and in Scraper.scrape the missing
\* anchor does not end the run.
C6_MissingAnchorIsolated ==
    /\ AnchorIsolatedInScrapePin
    /\ hist.stopped # "tag.get"

\* A page lacked the anchor and a sibling extracted after it is stored.
AnchorIsolatedWitness ==
    /\ pc = "append"
    /\ hist.commit = "ok"
    /\ \E i, j \in 1..Len(doc_pathnames) :
        /\ i < j
        /\ doc_pathnames[i] \in NoAnchor
        /\ doc_pathnames[j] \in Siblings
        /\ PageOf(doc_pathnames[j]).document_number \in DocNums(store)

\* C9: discovery does not raise: a template whose retrieval fails is skipped
\* and the remaining templates are queried.
C9_DiscoveryNeverRaises ==
    hist.stopped \notin {"retrieve_doc_page_urls", "collect_doc_metadata"}

-----------------------------------------------------------------------------
(* clean_pin on bounded inputs (SpecPin).                                  *)

\* The variables of the run loop, which the helpers do not touch.
Idle ==
    /\ program = "main"
    /\ data = <<>>
    /\ files = {}
    /\ metadata = NoFile
    /\ lstore = <<>>
    /\ loader = "none"
    /\ pins_csv = File(FALSE, <<>>)
    /\ ledgerExists = FALSE
    /\ ledger = <<>>
    /\ todo = <<>>
    /\ idx = 1
    /\ cleaned_pin = <<>>
    /\ tmpl = 1
    /\ url_pathnames = <<>>
    /\ doc_pathnames = <<>>
    /\ docIdx = 1
    /\ session = <<>>
    /\ store = <<>>
    /\ runs = 1
    /\ faults = 0
    /\ hist = NewPinHist(NoHist)

IdleUnchanged ==
    UNCHANGED <<pins_csv, ledgerExists, ledger, todo, idx, cleaned_pin, tmpl,
                url_pathnames, doc_pathnames, docIdx, session, store, runs,
                faults, hist, scraperVars>>

\* Characters that are not taken from the digit pattern: separators, and a
\* decimal digit outside ASCII.
ExtraChars == {"-", " ", ArabicThree}

Extras(s) == Cardinality({i \in 1..Len(s) : s[i] \in ExtraChars})

\* The k-th ASCII digit typed: the digits of the first default PIN, repeated.
PatternDigit(k) == CleanA[((k - 1) % PinLen) + 1]

InitPin ==
    /\ Idle
    /\ pc = "build"
    /\ inp = <<>>
    /\ out = <<>>

\* The argument grows by one character.
PinType ==
    /\ pc = "build"
    /\ Len(inp) < MaxRawLen
    /\ \/ inp' = Append(inp, PatternDigit(Len(inp) - Extras(inp) + 1))
       \/ /\ Extras(inp) < MaxExtra
          /\ \E c \in ExtraChars : inp' = Append(inp, c)
    /\ UNCHANGED <<pc, out>>
    /\ IdleUnchanged

\* out = clean_pin(inp)
PinCall ==
    /\ pc = "build"
    /\ out' = clean_pin(inp)
    /\ pc' = "called"
    /\ UNCHANGED inp
    /\ IdleUnchanged

NextPin == PinType \/ PinCall

SpecPin == InitPin /\ [][NextPin]_vars

\* The positions of the decimal digits of the argument.
DigitPositions ==
    {i \in 1..Len(inp) : inp[i] \in AsciiDigits \/ inp[i] = ArabicThree}

\* C7: for an argument with exactly 14 digits clean_pin returns 14
\* characters, the k-th being the k-th digit of the argument; for any other
\* argument it fails with the assertion's error and returns nothing.
C7_CleanPin ==
    pc = "called" =>
        IF Cardinality(DigitPositions) = 14
        THEN /\ Len(out) = 14
             /\ \A p \in DigitPositions :
                    out[Cardinality({q \in DigitPositions : q < p}) + 1] = inp[p]
        ELSE out = AssertionError

\* clean_pin has returned the 14 digits of an argument with separators.
C7_Witness ==
    /\ pc = "called"
    /\ Len(inp) > 14
    /\ Cardinality(DigitPositions) = 14
    /\ out # AssertionError
    /\ out = CleanA

-----------------------------------------------------------------------------
(* remove_duplicates on bounded inputs (SpecDedup).                        *)

Refs == {"a", "b", "c", "d"}

InitDedup ==
    /\ Idle
    /\ pc = "build"
    /\ inp = <<>>
    /\ out = <<>>

\* One more reference is found by a template.
DedupFind ==
    /\ pc = "build"
    /\ Len(inp) < MaxRefs
    /\ \E r \in Refs : inp' = Append(inp, r)
    /\ UNCHANGED <<pc, out>>
    /\ IdleUnchanged

\* out = remove_duplicates(inp)
DedupCall ==
    /\ pc = "build"
    /\ out' = remove_duplicates(inp)
    /\ pc' = "called"
    /\ UNCHANGED inp
    /\ IdleUnchanged

\* The lists that hold each element of S once.
Orderings(S) ==
    {q \in [1..Cardinality(S) -> S] : \A i, j \in 1..Cardinality(S) : q[i] = q[j] => i = j}

\* Scraper.remove_duplicates(urls): list(set(urls)).  The order in which a
\* set of strings is iterated depends on the hashes of the run, not on the
\* list the set was built from.
Scraper_remove_duplicates(urls) == Orderings(SeqToSet(urls))

\* out = Scraper().remove_duplicates(inp)
ScraperDedupCall ==
    /\ pc = "build"
    /\ out' \in Scraper_remove_duplicates(inp)
    /\ pc' = "called Scraper"
    /\ UNCHANGED inp
    /\ IdleUnchanged

NextDedup == DedupFind \/ DedupCall \/ ScraperDedupCall

SpecDedup == InitDedup /\ [][NextDedup]_vars

\* The position of the first occurrence of x in the argument.
FirstSeen(x) == CHOOSE k \in 1..Len(inp) : inp[k] = x /\ \A j \in 1..(k - 1) : inp[j] # x

\* The result holds each reference of the argument exactly once, in the
\* order of the first occurrences.
InFirstSeenOrder ==
    /\ SeqToSet(out) = SeqToSet(inp)
    /\ \A i, j \in 1..Len(out) : i < j => FirstSeen(out[i]) < FirstSeen(out[j])

\* remove_duplicates of utils.py, which scrape_pin and extract_related_pins
\* call, returns the references in first-seen order.
UtilsFirstSeenOrder == pc = "called" => InFirstSeenOrder

\* C8: whichever remove_duplicates is called, the result holds each
\* reference of the concatenated results exactly once, in the order of the
\* first occurrences.
C8_DedupFirstSeenOrder == pc \in {"called", "called Scraper"} => InFirstSeenOrder

\* [a,b,a,c] followed by [c,d] has given [a,b,c,d].
UtilsFirstSeenWitness ==
    /\ pc = "called"
    /\ inp = <<"a", "b", "a", "c">> \o <<"c", "d">>
    /\ out = <<"a", "b", "c", "d">>

-----------------------------------------------------------------------------
(* get_pins_to_scrape on bounded inputs (SpecLedger).                      *)

LedgerPins == {PinA, PinASpaced, PinB, PinC}

InitLedger ==
    /\ Idle
    /\ pc = "build"
    /\ inp = [pins |-> File(FALSE, <<>>), completed |-> File(FALSE, <<>>)]
    /\ out = [exc |-> "none", pins |-> <<>>]

\* pins.csv is created, or a line is written to it.
LedgerInput ==
    /\ pc = "build"
    /\ \/ /\ ~inp.pins.exists
          /\ inp' = [inp EXCEPT !.pins = File(TRUE, <<>>)]
       \/ /\ inp.pins.exists
          /\ Len(inp.pins.lines) < MaxLines
          /\ \E p \in LedgerPins :
                inp' = [inp EXCEPT !.pins = File(TRUE, Append(@.lines, p))]
    /\ UNCHANGED <<pc, out>>
    /\ IdleUnchanged

\* A line is written to completed_pins.csv, which exists from then on.
LedgerRecord ==
    /\ pc = "build"
    /\ Len(inp.completed.lines) < MaxLines
    /\ \E p \in LedgerPins :
        inp' = [inp EXCEPT !.completed = File(TRUE, Append(@.lines, p))]
    /\ UNCHANGED <<pc, out>>
    /\ IdleUnchanged

\* out = get_pins_to_scrape()
LedgerCall ==
    /\ pc = "build"
    /\ out' = get_pins_to_scrape(inp.pins, inp.completed)
    /\ pc' = "called"
    /\ UNCHANGED inp
    /\ IdleUnchanged

NextLedger == LedgerInput \/ LedgerRecord \/ LedgerCall

SpecLedger == InitLedger /\ [][NextLedger]_vars

\* The lines of a file as the csv reader yields them: without their spaces.
ReadLines(lines) == [i \in 1..Len(lines) |-> SelectSeq(lines[i], LAMBDA c : c # " ")]

\* The input list: the lines of pins.csv, or the default PINs without it.
InputList ==
    IF inp.pins.exists THEN ReadLines(inp.pins.lines) ELSE <<PinA, PinC, PinB>>

\* The positions of the PINs of the input list that are no line of the ledger.
Remaining ==
    {i \in 1..Len(InputList) :
        \A k \in 1..Len(inp.completed.lines) :
            ReadLines(inp.completed.lines)[k] # InputList[i]}

\* The result is the PINs at the Remaining positions, in their order.
IsDifference ==
    /\ out.exc = "none"
    /\ Len(out.pins) = Cardinality(Remaining)
    /\ \A i \in Remaining :
        out.pins[Cardinality({k \in Remaining : k < i}) + 1] = InputList[i]

\* C10 as stated: get_pins_to_scrape always returns the difference of the
\* input list and the ledger, in the order of the input list.
C10_AlwaysDifference == pc = "called" => IsDifference

\* C10 as amended: it returns that difference unless the input list is empty
\* and the ledger file does not exist, when the assertion on the input list
\* fails.
C10_DifferenceOrAssertion ==
    pc = "called" =>
        IF InputList = <<>> /\ ~inp.completed.exists
        THEN out.exc = "AssertionError"
        ELSE IsDifference

\* [A,B,C] with the ledger [A] has given [B,C].
C10_Witness ==
    /\ pc = "called"
    /\ inp.pins.lines = <<PinA, PinB, PinC>>
    /\ inp.completed.lines = <<PinA>>
    /\ out.pins = <<PinB, PinC>>


-----------------------------------------------------------------------------
(* Properties of the retrievals of a run, checked under Spec.              *)

\* The positions of the log where op was done for doc_num of pin.
Logged(op, pin, doc_num) ==
    {i \in 1..Len(hist.log) :
        /\ hist.log[i].op = op
        /\ hist.log[i].pin = pin
        /\ hist.log[i].doc = doc_num}

\* The positions of the log where download_pdf was called for doc_num of pin.
PdfCalls(pin, doc_num) == Logged("pdf", pin, doc_num) \cup Logged("skip", pin, doc_num)

\* download_pdf was called at least twice in this run for a file that was
\* not on disk at the first call.
CalledTwice(pin, doc_num) ==
    /\ Cardinality(PdfCalls(pin, doc_num)) >= 2
    /\ \E i \in Logged("pdf", pin, doc_num) :
           \A j \in PdfCalls(pin, doc_num) : i <= j

\* C11: when download_pdf is called twice for the same (pin, doc_num), the
\* file being absent at the first call, the network is asked once and the
\* file is written once; the second call asks and writes nothing and, when
\* it returns, the path <pin>/<doc_num> is the doc's pdf_path.
C11_DownloadIdempotent ==
    \A call \in hist.pdfCalls :
        LET pin == call[1]
            doc_num == call[2]
            last == hist.log[Len(hist.log)]
        IN  CalledTwice(pin, doc_num) =>
                /\ Cardinality(Logged("pdf", pin, doc_num)) = 1
                /\ Cardinality(Logged("write", pin, doc_num)) = 1
                /\ <<pin, doc_num>> \in files
                /\ (pc = "extract" /\ last = Event("skip", last.iter, pin, doc_num) =>
                        DictGet(DictGet(data, pin), doc_num).pdf_path = <<pin, doc_num>>)

\* The second call has just returned.
C11_Witness ==
    /\ pc = "extract"
    /\ hist.log # <<>>
    /\ hist.log[Len(hist.log)].op = "skip"
    /\ CalledTwice(hist.log[Len(hist.log)].pin, hist.log[Len(hist.log)].doc)

\* The requests of the log: result pages, detail pages and PDFs.
Retrievals == {"search", "page", "pdf"}

\* The place of an entry of the log in the processing of one PIN.
Stage(op) ==
    CASE op = "search" -> 1
      [] op \in {"page", "pdf", "write", "skip"} -> 2
      [] op = "commit" -> 3
      [] op = "append" -> 4

\* Every request made in an iteration of the loop over the PINs is for the
\* PIN of that iteration.
OwnPinOnly ==
    \A i \in 1..Len(hist.log) :
        hist.log[i].op \in Retrievals =>
            hist.log[i].pin = clean_pin(todo[hist.log[i].iter])

\* The entries of an iteration are in the order discovery, extraction,
\* commit, ledger append, and no entry of an earlier iteration follows one
\* of a later iteration.
InOrder ==
    \A i, j \in 1..Len(hist.log) :
        i < j =>
            /\ hist.log[i].iter <= hist.log[j].iter
            /\ (hist.log[i].iter = hist.log[j].iter =>
                    Stage(hist.log[i].op) <= Stage(hist.log[j].op))

\* Before the first entry of an iteration, the iteration before it called
\* commit and appended its PIN to the ledger.
FinishedBeforeNext ==
    \A j \in 1..Len(hist.log) :
        hist.log[j].iter > 1 =>
            \E c, a \in 1..(j - 1) :
                /\ c < a
                /\ hist.log[c].op = "commit"
                /\ hist.log[a].op = "append"
                /\ hist.log[c].iter = hist.log[j].iter - 1
                /\ hist.log[a].iter = hist.log[j].iter - 1

\* main.py processes the PINs one at a time.
OneAtATimeInMain ==
    program = "main" => OwnPinOnly /\ InOrder /\ FinishedBeforeNext

\* main.py has committed and recorded a first PIN and has requested a page
\* of the second.
OneAtATimeWitness ==
    /\ program = "main"
    /\ \E i, j \in 1..Len(hist.log) :
           /\ hist.log[i].iter = 1 /\ hist.log[i].op = "page"
           /\ hist.log[j].iter = 2 /\ hist.log[j].op = "page"
           /\ hist.log[i].pin # hist.log[j].pin

\* C12: the PINs are processed one at a time: the requests, the commit and
\* the ledger append of a PIN come before the first request of the next
\* PIN, and no page or PDF of a PIN that is finished is requested again in
\* the same run.
C12_OnePinAtATime == OwnPinOnly /\ InOrder /\ FinishedBeforeNext

\* download_pdf was called for every document of the rows.
PdfFetcherCalled(rows) ==
    \A i \in 1..Len(DocRows(rows)) :
        \E call \in hist.pdfCalls : call[2] = DocRows(rows)[i].doc_num

\* The documents load_scraped_data.py commits went through download_pdf.
LoadedAfterDownload == PdfFetcherCalled(lstore)

LoadedAfterDownloadWitness == DocRows(lstore) # <<>>

\* C13: for every document whose row is committed, the PDF fetcher was
\* called for the document (a download, or a skip because the file exists)
\* between the extraction of its page and the commit.
C13_PdfFetchedBeforeCommit == PdfFetcherCalled(store) /\ PdfFetcherCalled(lstore)

-----------------------------------------------------------------------------
(* Properties of the error handling, checked under Spec.                   *)

\* scrape_pin has just gone through one iteration of its loop over
\* doc_pathnames.
PageStep ==
    /\ program = "main"
    /\ pc = "extract"
    /\ Len(hist'.attempted) = Len(hist.attempted) + 1

\* C14: when the status of a detail page is not 200, scrape_doc_page returns
\* None and raises nothing, and scrape_pin skips the page: insert_content is
\* not called for it, the rows pending in the session are unchanged and the
\* loop goes on.
C14_Non200ReturnsNone ==
    [][(PageStep /\ hist'.response = "non200") =>
          /\ hist'.returnedNone = hist.returnedNone \cup {doc_pathnames[docIdx]}
          /\ hist'.raised = hist.raised
          /\ hist'.inserted = hist.inserted
          /\ session' = session
          /\ pc' = "extract"
          /\ docIdx' = docIdx + 1]_vars

\* A page was answered with another status while rows were pending.
C14_Witness ==
    /\ program = "main"
    /\ pc = "extract"
    /\ hist.response = "non200"
    /\ hist.attempted # <<>>
    /\ hist.attempted[Len(hist.attempted)] \in hist.returnedNone
    /\ session # <<>>

\* The loading script has just run.
LoadStep ==
    /\ program = "scraper"
    /\ pc \in {"done", "crashed"}
    /\ pc' = pc
    /\ loader' # "none"

\* What the statements of this load do inside the transaction.
Executed(script) == execute(script, lstore, Statements(script, metadata.data))

\* insert_data of the loading scripts: an exception of a statement reaches
\* the caller, and after any exception the database is as it was before the
\* transaction.
LoaderRollsBack ==
    /\ (LoadStep /\ hist'.lexc # "none") => lstore' = lstore
    /\ (LoadStep /\ metadata.written /\ faults' = faults
            /\ Executed(loader').exc # "none") =>
           hist'.lexc = Executed(loader').exc

\* insert_content of main.py: the exception reaches scrape_pin, which goes
\* on with the next page; nothing is rolled back, the rows pending in the
\* session stay pending.
InsertRaisesToCaller ==
    (PageStep /\ doc_pathnames[docIdx] \in hist'.inserted \cap hist'.raised) =>
        /\ SubSeq(session', 1, Len(session)) = session
        /\ store' = store
        /\ pc' = "extract"
        /\ hist'.commit = "none"

\* C15 (as the code has it): an exception raised while insert_data of a
\* loading script builds or executes its statements rolls the whole
\* transaction back, the database being as before it, and is raised again;
\* an exception raised by insert_content is raised again to scrape_pin,
\* which skips the document and rolls nothing back.
C15_LoaderRollsBackAndRaises == [][LoaderRollsBack /\ InsertRaisesToCaller]_vars

\* A load has failed on a statement after other statements of the same
\* transaction had inserted rows.
C15_Witness ==
    /\ program = "scraper"
    /\ pc = "done"
    /\ hist.lexc = "IntegrityError"
    /\ Executed(loader).exc = "IntegrityError"
    /\ Len(Executed(loader).rows) > Len(lstore)

\* insert_content raised for a page of this PIN and the commit of the PIN
\* persisted other documents.
InsertRaisedWitness ==
    /\ program = "main"
    /\ pc = "append"
    /\ hist.inserted \cap hist.raised # {}
    /\ hist.commit = "ok"
    /\ Len(store) > Len(hist.pre)

\* C15 as stated: a transaction in which the construction of a record's rows
\* raised persists no row, the store being as before the transaction.
C15_AnyExceptionRollsBack ==
    (program = "main" /\ pc = "append" /\ hist.inserted \cap hist.raised # {}) =>
        store = hist.pre

-----------------------------------------------------------------------------
(* SpecExtract: the extraction and the load of one parcel, for every short *)
(* list of detail pages that its result pages may show.                    *)

\* The number of detail pages of the parcel.
MaxDocs == 2

\* The lists of at most MaxDocs pages without repetition, as
\* remove_duplicates and drop_duplicates leave them.
ListsOf(pages) == {l \in SeqsUpTo(pages, MaxDocs) :
                      \A i, j \in 1..Len(l) : i # j => l[i] # l[j]}

PageLists == ListsOf(Hrefs)

\* The program has discovered the pages of the parcel PinC and is about to
\* extract the first: scrape_pin before its loop, or Scraper.scrape before
\* extract_from_doc_urls.
ExtractStart(lists) ==
    /\ program \in {"main", "scraper"}
    /\ pins_csv = File(TRUE, <<PinC>>)
    /\ todo = <<PinC>>
    /\ idx = 1
    /\ cleaned_pin = clean_pin(PinC)
    /\ pc = "extract"
    /\ tmpl = NumTemplates
    /\ url_pathnames \in lists
    /\ doc_pathnames = IF program = "main" THEN url_pathnames ELSE <<>>
    /\ data = IF program = "main" THEN <<>>
              ELSE <<[key |-> cleaned_pin,
                      value |-> register_docs(<<>>,
                          [i \in 1..Len(url_pathnames) |-> ResultRow(url_pathnames[i])])]>>
    /\ docIdx = 1
    /\ session = <<>>
    /\ store = <<>>
    /\ ledgerExists = FALSE
    /\ ledger = <<>>
    /\ files = {}
    /\ metadata = NoFile
    /\ lstore = <<>>
    /\ loader = "none"
    /\ runs = 1
    /\ faults = 0
    /\ hist = NewPinHist(NoHist)
    /\ inp = <<>>
    /\ out = <<>>

InitExtract == ExtractStart(PageLists)

NextExtract ==
    \/ ScrapeDoc
    \/ Commit
    \/ AppendLedger
    \/ Finish
    \/ ExtractDoc
    \/ ExtractDone
    \/ ScraperDump
    \/ LoadData

SpecExtract == InitExtract /\ [][NextExtract]_vars

-----------------------------------------------------------------------------
(* Properties of the dates, checked under SpecExtract.                     *)

\* The page is well formed but for its date_recorded, which is d.
RecordedIs(h, d) ==
    PageOf(h) = [GoodPage(PageOf(h).document_number) EXCEPT !.date_recorded = d]

\* The transaction of the parcel is over and no request and no connection
\* failed: commit has returned or raised in main.py, the loading script has
\* run on the metadata.json of this run.
Loaded ==
    /\ faults = 0
    /\ \/ program = "main" /\ pc = "append"
       \/ program = "scraper" /\ pc = "done" /\ loader # "none"

\* The rows the database of the program holds.
Persisted == IF program = "main" THEN store ELSE lstore

\* C16: a document whose date_recorded is blank is inserted all the same:
\* when the pages of a parcel are well formed but for blank dates of
\* recording, every one of its documents has its row after the
\* transaction.
C16_BlankDateRecordedInserted ==
    (/\ Loaded
     /\ \A i \in 1..Len(url_pathnames) :
            RecordedIs(url_pathnames[i], Date2020) \/ RecordedIs(url_pathnames[i], <<>>))
    => \A i \in 1..Len(url_pathnames) :
            PageOf(url_pathnames[i]).document_number \in DocNums(Persisted)

\* When every page of the parcel is well formed, every document has its row
\* after the transaction.
WellFormedInserted ==
    (Loaded /\ \A i \in 1..Len(url_pathnames) : RecordedIs(url_pathnames[i], Date2020))
    => \A i \in 1..Len(url_pathnames) :
            PageOf(url_pathnames[i]).document_number \in DocNums(Persisted)

WellFormedInsertedWitness ==
    /\ Loaded
    /\ Len(url_pathnames) = 2
    /\ \A i \in 1..Len(url_pathnames) : RecordedIs(url_pathnames[i], Date2020)

\* The dates a detail page may show: a date, a date in another format, and
\* nothing.
DateTexts == {Date2020, DateIso, <<>>}

\* The page is well formed but for its dates.
OnlyDatesDiffer(h) ==
    \E e, r \in DateTexts :
        PageOf(h) = [GoodPage(PageOf(h).document_number) EXCEPT
                        !.date_executed = e, !.date_recorded = r]

\* The date a text in MM/DD/YYYY format denotes, null for any other text.
DateOrNull(text) ==
    IF text # <<>> /\ strptime(text).exc = "none" THEN strptime(text).date
    ELSE NullDate

\* The document of the page has its row, with the dates of the page or null.
StoredWithDates(h) ==
    \E i \in 1..Len(Persisted) :
        /\ Persisted[i].tbl = "documents"
        /\ Persisted[i].doc_num = PageOf(h).document_number
        /\ Persisted[i].date_executed = DateOrNull(PageOf(h).date_executed)
        /\ Persisted[i].date_recorded = DateOrNull(PageOf(h).date_recorded)

\* C17: parsing a date is never fatal: when the pages of a parcel are well
\* formed but for dates that are blank or not in MM/DD/YYYY format, every
\* document is stored, with null for such a date.
C17_DateParsingNeverFatal ==
    (Loaded /\ \A i \in 1..Len(url_pathnames) : OnlyDatesDiffer(url_pathnames[i]))
    => \A i \in 1..Len(url_pathnames) : StoredWithDates(url_pathnames[i])

\* The loading scripts store a document whose date of execution is not in
\* the format, with null for it.
LoaderCoercesExecuted ==
    (/\ Loaded
     /\ program = "scraper"
     /\ \A i \in 1..Len(url_pathnames) :
            /\ OnlyDatesDiffer(url_pathnames[i])
            /\ PageOf(url_pathnames[i]).date_recorded = Date2020)
    => \A i \in 1..Len(url_pathnames) : StoredWithDates(url_pathnames[i])

LoaderCoercesExecutedWitness ==
    /\ Loaded
    /\ program = "scraper"
    /\ url_pathnames = <<"/doc/5">>
    /\ StoredWithDates("/doc/5")
    /\ lstore[1].date_executed = NullDate

-----------------------------------------------------------------------------
(* SpecAmount: parse_consideration_amount on bounded arguments.            *)

\* The length of a typed amount.
MaxAmountLen == 4

\* The characters of a typed amount.
AmountChars == {"$", ",", ".", " ", "0", "1", "x"}

InitAmount ==
    /\ Idle
    /\ pc = "build"
    /\ inp = <<>>
    /\ out = Float(0, 0)

\* The argument grows by one character.
AmountType ==
    /\ pc = "build"
    /\ inp # NoneS
    /\ Len(inp) < MaxAmountLen
    /\ \E c \in AmountChars : inp' = Append(inp, c)
    /\ UNCHANGED <<pc, out>>
    /\ IdleUnchanged

\* The argument is the amount of a detail page, the default "$0.00", or
\* None for a missing key.
AmountOfPage ==
    /\ pc = "build"
    /\ inp = <<>>
    /\ inp' \in {Amount1250, ZeroDollars, NoneS}
    /\ UNCHANGED <<pc, out>>
    /\ IdleUnchanged

\* out = parse_consideration_amount(inp)
AmountCall ==
    /\ pc = "build"
    /\ out' = parse_consideration_amount(inp)
    /\ pc' = "called"
    /\ UNCHANGED inp
    /\ IdleUnchanged

NextAmount == AmountType \/ AmountOfPage \/ AmountCall

SpecAmount == InitAmount /\ [][NextAmount]_vars

RECURSIVE Pow10(_)
Pow10(n) == IF n = 0 THEN 1 ELSE 10 * Pow10(n - 1)

\* The argument without its '$' and ',' and without the blanks around it.
Significant ==
    IF inp = NoneS THEN <<>>
    ELSE strip(SelectSeq(inp, LAMBDA c : c \notin {"$", ","}))

\* What is left is a decimal number: digits, with at most one point.
IsNumber ==
    /\ \A i \in 1..Len(Significant) : Significant[i] \in AsciiDigits \cup {"."}
    /\ \E i \in 1..Len(Significant) : Significant[i] \in AsciiDigits
    /\ Cardinality({i \in 1..Len(Significant) : Significant[i] = "."}) <= 1

\* The number is its digits read as an integer, divided by ten to the
\* number of digits after the point.
NumberDigits == SelectSeq(Significant, LAMBDA c : c # ".")

DigitsAfterPoint ==
    IF \E i \in 1..Len(Significant) : Significant[i] = "."
    THEN Len(Significant) - (CHOOSE i \in 1..Len(Significant) : Significant[i] = ".")
    ELSE 0

\* C18: parse_consideration_amount returns the number that the argument
\* denotes once every '$' and ',' is removed ("$1,250.00" gives 1250.0), and
\* 0.0 for a blank, missing or otherwise unparsable argument; it never
\* raises.
C18_ParseAmount ==
    pc = "called" =>
        IF inp # NoneS /\ strip(inp) # <<>> /\ IsNumber
        THEN out.mant * Pow10(DigitsAfterPoint)
                 = DigitsValue(NumberDigits) * Pow10(out.places)
        ELSE out = Float(0, 0)

\* "$1,250.00" was parsed to 1250.0.
C18_Witness ==
    /\ pc = "called"
    /\ inp = Amount1250
    /\ out = Float(1250, 0)

-----------------------------------------------------------------------------
(* A PDF answered with a status other than 200                             *)

\* The doc that extract_from_doc_urls is at.
DocAt == DictGet(DictGet(data, DocPositions(data)[docIdx][1]),
                 DocPositions(data)[docIdx][2])

\* A step of extract_from_doc_urls whose page is served and whose PDF is
\* answered with a status other than 200.
PdfNon200Step == ExtractDocWith("ok", "non200")

\* Such a step opens no file and records no pdf_path.
PdfNon200WritesNothing ==
    [][PdfNon200Step =>
          /\ files' = files
          /\ DictGet(DictGet(data', DocPositions(data)[docIdx][1]),
                     DocPositions(data)[docIdx][2]).pdf_path = <<>>]_vars

\* A PDF was answered with a status other than 200: nothing was written for
\* the doc and the run has ended in download_pdf.
PdfNon200Witness ==
    /\ program = "scraper"
    /\ pc = "crashed"
    /\ hist.stopped = "download_pdf"
    /\ hist.log # <<>>
    /\ hist.log[Len(hist.log)].op = "pdf"
    /\ DocAt.pdf_path = <<>>
    /\ <<DocPositions(data)[docIdx][1], DocPositions(data)[docIdx][2]>> \notin files

\* C19: a PDF answered with a status other than 200 writes no file and
\* records no pdf_path for the doc, and the loops go on to the next doc: the
\* other docs of the PIN and the other PINs are still processed.
C19_PdfNon200Confined ==
    [][PdfNon200Step =>
          /\ files' = files
          /\ DictGet(DictGet(data', DocPositions(data)[docIdx][1]),
                     DocPositions(data)[docIdx][2]).pdf_path = <<>>
          /\ pc' = "extract"
          /\ docIdx' = docIdx + 1]_vars

-----------------------------------------------------------------------------
(* A related PIN that clean_pin rejects                                    *)

\* The page lists related PINs and clean_pin rejects one of them.
MalformedRelated(href) ==
    LET related == PageOf(href).related
    IN  /\ related.heading /\ related.table /\ related.tbody
        /\ \E i \in 1..Len(related.rows) : clean_pin(related.rows[i]) = AssertionError

\* The related PINs of the page that clean_pin accepts, each once, in the
\* order of their first row.
WellFormedRelated(href) ==
    LET accepted == SelectSeq(PageOf(href).related.rows,
                              LAMBDA cell : clean_pin(cell) # AssertionError)
    IN  remove_duplicates([i \in 1..Len(accepted) |-> clean_pin(accepted[i])])

\* A served page that lacks nothing but a well-formed related PIN.
ServedMalformedStep ==
    /\ PageStep
    /\ hist'.response = "ok"
    /\ MalformedRelated(doc_pathnames[docIdx])
    /\ PageOf(doc_pathnames[docIdx]).status = 200
    /\ PageOf(doc_pathnames[docIdx]).anchor

\* What the code does with such a page: scrape_doc_page returns None, the
\* page is skipped whole and nothing of it reaches the session.
MalformedRelatedSkipsPage ==
    [][ServedMalformedStep =>
          /\ doc_pathnames[docIdx] \in hist'.returnedNone
          /\ doc_pathnames[docIdx] \notin hist'.inserted
          /\ session' = session
          /\ pc' = "extract"
          /\ docIdx' = docIdx + 1]_vars

\* A page with a malformed related PIN was skipped while rows of another
\* page were pending.
MalformedRelatedWitness ==
    /\ program = "main"
    /\ pc = "extract"
    /\ hist.response = "ok"
    /\ hist.attempted # <<>>
    /\ MalformedRelated(hist.attempted[Len(hist.attempted)])
    /\ hist.attempted[Len(hist.attempted)] \in hist.returnedNone
    /\ session # <<>>

\* C20: a related-PIN cell that fails normalization makes only its row be
\* skipped: scrape_doc_page still returns the record of the page, with the
\* other related PINs (well formed, each once) and the other sections, and
\* the record is handed to insert_content.
C20_MalformedRelatedRowSkipped ==
    [][ServedMalformedStep =>
          LET href == doc_pathnames[docIdx]
              page == PageOf(href)
          IN  /\ href \notin hist'.returnedNone
              /\ href \in hist'.inserted
              /\ session' = insert_content(session, todo[idx],
                     [ContentOf(page) EXCEPT
                         !.related_pins = WellFormedRelated(href)]).session]_vars

-----------------------------------------------------------------------------
(* SpecRows: main.py on one PIN of the input list, written with ASCII      *)
(* digits or with a digit outside ASCII, whose pages the portal lists.     *)

RowPins == {PinC, PinArabic}

RowPages == {"/doc/4", "/doc/7", "/doc/9"}

\* scrape_pin before its loop: clean_pin has accepted the PIN.
InitRows ==
    /\ program = "main"
    /\ \E pin \in RowPins :
           /\ pins_csv = File(TRUE, <<pin>>)
           /\ todo = <<pin>>
           /\ cleaned_pin = clean_pin(pin)
    /\ idx = 1
    /\ pc = "extract"
    /\ tmpl = NumTemplates
    /\ url_pathnames \in {l \in SeqsUpTo(RowPages, MaxDocs) :
                              \A i, j \in 1..Len(l) : i # j => l[i] # l[j]}
    /\ doc_pathnames = url_pathnames
    /\ data = <<>>
    /\ docIdx = 1
    /\ session = <<>>
    /\ store = <<>>
    /\ ledgerExists = FALSE
    /\ ledger = <<>>
    /\ files = {}
    /\ metadata = NoFile
    /\ lstore = <<>>
    /\ loader = "none"
    /\ runs = 1
    /\ faults = 0
    /\ hist = NewPinHist(NoHist)
    /\ inp = <<>>
    /\ out = <<>>

NextRows ==
    \/ ScrapeDoc
    \/ Commit
    \/ AppendLedger
    \/ Finish

SpecRows == InitRows /\ [][NextRows]_vars

\* The pin and related_pin of every stored row are 14 ASCII digits.
PinColumnsAscii ==
    \A i \in 1..Len(store) :
        /\ store[i].tbl \in {"documents", "entities", "pins"} =>
               Similar14Digits(store[i].pin)
        /\ store[i].tbl = "pins" => Similar14Digits(store[i].related_pin)

\* C21: every pin and related_pin of a persisted row (documents.pin,
\* entities.pin, pins.pin, pins.related_pin) is exactly 14 ASCII digits,
\* whatever the PIN strings of the input list and of the pages.
C21_PinColumnsAscii == PinColumnsAscii

\* For a PIN written with ASCII digits and separators the columns are 14
\* ASCII digits: the pin by clean_pin, the related_pin by clean_pin and by
\* ck_related_pin_format.
AsciiInputAsciiColumns ==
    (\A i \in 1..Len(todo[1]) : todo[1][i] # ArabicThree) => PinColumnsAscii

\* The rows of a document of a hyphenated PIN are stored, one of them a
\* related PIN that the page shows hyphenated.
AsciiInputWitness ==
    /\ todo[1] = PinC
    /\ \E i \in 1..Len(store) :
           /\ store[i].tbl = "pins"
           /\ store[i].pin = clean_pin(PinC)
           /\ store[i].related_pin = CleanB

-----------------------------------------------------------------------------
(* SpecParties: extraction and load of one parcel whose pages differ in    *)
(* their grantor and grantee tables and in their page count.               *)

\* D4 is well formed; D10 names ALICE as grantor and as grantee; the
\* grantee table of D11 has no tbody; D12 has no grantors section; D13 has
\* no page count and D14 the page count "x".
PartyPages == {"/doc/4", "/doc/10", "/doc/11", "/doc/12", "/doc/13", "/doc/14"}

InitParties == ExtractStart(ListsOf(PartyPages))

SpecParties == InitParties /\ [][NextExtract]_vars

\* The names a page shows both in its grantor and in its grantee table.
BothRoles(href) ==
    LET names(sec) == IF sec.heading /\ sec.table /\ sec.tbody
                      THEN {sec.rows[i].name : i \in 1..Len(sec.rows)}
                      ELSE {}
    IN  names(PageOf(href).grantors) \cap names(PageOf(href).grantees)

HasDocument(rows, doc_num) ==
    \E i \in 1..Len(rows) : rows[i].tbl = "documents" /\ rows[i].doc_num = doc_num

HasEntity(rows, doc_num, name, status) ==
    \E i \in 1..Len(rows) :
        /\ rows[i].tbl = "entities"
        /\ rows[i].doc_num = doc_num
        /\ rows[i].entity_name = name
        /\ rows[i].entity_status = status

\* In the rows of a database a party of both roles has a row per role, and
\* no two entity rows agree on document, name and role.
OneRowPerRole(rows) ==
    /\ \A href \in PartyPages : \A name \in BothRoles(href) :
           HasDocument(rows, PageOf(href).document_number) =>
               /\ HasEntity(rows, PageOf(href).document_number, name, "grantor")
               /\ HasEntity(rows, PageOf(href).document_number, name, "grantee")
    /\ \A i, j \in 1..Len(rows) :
           (/\ rows[i].tbl = "entities" /\ rows[j].tbl = "entities"
            /\ rows[i].doc_num = rows[j].doc_num
            /\ rows[i].entity_name = rows[j].entity_name
            /\ rows[i].entity_status = rows[j].entity_status) => i = j

\* C22: a party named as grantor and as grantee of a document is persisted
\* as two entity rows, one per role, and no second row exists for the same
\* document, name and role, in the database of main.py and in the one of the
\* loading scripts.
C22_OneEntityRowPerRole == OneRowPerRole(store) /\ OneRowPerRole(lstore)

\* The rows main.py commits satisfy it: Entity is unique on (doc_num,
\* entity_name, entity_status).
OneRowPerRoleInMain == OneRowPerRole(store)

\* main.py has stored D10 with ALICE as grantor and as grantee.
OneRowPerRoleWitness ==
    /\ HasEntity(store, "D10", "ALICE", "grantor")
    /\ HasEntity(store, "D10", "ALICE", "grantee")

-----------------------------------------------------------------------------
(* A PIN without documents, checked under Spec.                            *)

\* scrape_pin of main.py is past discovery and found no page.
ZeroRefs ==
    /\ program = "main"
    /\ pc \in {"extract", "append"}
    /\ doc_pathnames = <<>>

\* C23: a PIN whose discovery returns no page reference still goes from
\* discovery to extraction, commit and the ledger: after the last template
\* the loop over no page is entered, the commit of an empty session is
\* called and writes no row, and the PIN is appended to the ledger.
C23_ZeroRefsCommitted ==
    [][/\ (program = "main" /\ pc = "discover" /\ tmpl = NumTemplates
                /\ pc' # "crashed") => pc' = "extract"
       /\ (ZeroRefs /\ pc = "extract") =>
              /\ pc' = "append"
              /\ hist'.commitCalled
              /\ hist'.sess = <<>>
              /\ hist'.db = "ok" => hist'.commit = "ok"
              /\ store' = store
       /\ (ZeroRefs /\ pc = "append") =>
              /\ pc' = "loop"
              /\ ledger' = Append(ledger, todo[idx])
              /\ store' = store]_vars

\* The second default PIN, which has no document, is in the ledger after an
\* empty commit.
C23_Witness ==
    /\ program = "main"
    /\ pc = "loop"
    /\ doc_pathnames = <<>>
    /\ cleaned_pin = clean_pin(PinC)
    /\ hist.commit = "ok"
    /\ hist.sess = <<>>
    /\ ledger # <<>>
    /\ ledger[Len(ledger)] = PinC

-----------------------------------------------------------------------------
(* SpecSections: the two extractors of the grantor and grantee tables on   *)
(* pages whose sections lack their heading, their table or its body.       *)

\* A section with or without its heading, its table and its tbody, with no
\* row or one.
Sections ==
    {[heading |-> h, table |-> t, tbody |-> b, rows |-> r] :
        h \in BOOLEAN, t \in BOOLEAN, b \in BOOLEAN,
        r \in {<<>>, <<[name |-> "ALICE", trust_number |-> ""]>>}}

InitSections ==
    /\ Idle
    /\ pc = "build"
    /\ \E g \in Sections : \E e \in Sections :
           inp = [GoodPage("D4") EXCEPT !.grantors = g, !.grantees = e]
    /\ out = <<>>

\* out = extract_grantor_grantee(soup) of scrape.py
ScrapeEntitiesCall ==
    /\ pc = "build"
    /\ LET entities == extract_grantor_grantee(inp)
       IN  out' = [by |-> "scrape.py",
                   grantors |-> IF entities.grantors.is_none THEN NoneS
                                ELSE entities.grantors.data,
                   grantees |-> IF entities.grantees.is_none THEN NoneS
                                ELSE entities.grantees.data]
    /\ pc' = "called"
    /\ UNCHANGED inp
    /\ IdleUnchanged

\* out = Scraper.extract_grantor_grantee_tables(soup) of scraper.py
ScraperEntitiesCall ==
    /\ pc = "build"
    /\ LET entities == extract_grantor_grantee_tables(inp)
       IN  out' = [by |-> "scraper.py",
                   grantors |-> entities.grantors,
                   grantees |-> entities.grantees]
    /\ pc' = "called"
    /\ UNCHANGED inp
    /\ IdleUnchanged

NextSections == ScrapeEntitiesCall \/ ScraperEntitiesCall

SpecSections == InitSections /\ [][NextSections]_vars

SectionAbsent(sec) == ~sec.heading \/ ~sec.table \/ ~sec.tbody

\* C24: the extractor returns an empty list, never None, for the grantors
\* and for the grantees whenever the heading, the table or the table body of
\* that section is absent from the page.
C24_AbsentSectionEmptyList ==
    pc = "called" =>
        /\ SectionAbsent(inp.grantors) => out.grantors = <<>>
        /\ SectionAbsent(inp.grantees) => out.grantees = <<>>

\* Scraper.extract_grantor_grantee_tables does so.
AbsentSectionEmptyListElsewhere ==
    (pc = "called" /\ out.by = "scraper.py") =>
        /\ SectionAbsent(inp.grantors) => out.grantors = <<>>
        /\ SectionAbsent(inp.grantees) => out.grantees = <<>>

\* scraper.py has returned [] for a table without a tbody.
AbsentSectionWitness ==
    /\ pc = "called"
    /\ out.by = "scraper.py"
    /\ inp.grantees.heading /\ inp.grantees.table /\ ~inp.grantees.tbody
    /\ out.grantees = <<>>

-----------------------------------------------------------------------------
(* The page count, checked under SpecParties.                              *)

\* The page shows no page count or one that is not an integer.
PageCountBad(href) ==
    LET text == PageOf(href).num_pages
    IN  text \in {AbsentS, NoneS, <<>>} \/ ~AllAsciiDigits(text)

HasDocumentWithPages(rows, doc_num, n) ==
    \E i \in 1..Len(rows) :
        /\ rows[i].tbl = "documents"
        /\ rows[i].doc_num = doc_num
        /\ rows[i].num_pages = n

\* main.py: the documents handed to insert_content before a commit that
\* succeeded.
HandedToInsert ==
    IF program = "main" /\ pc \in {"append", "loop", "done"} /\ hist.commit = "ok"
    THEN hist.inserted ELSE {}

\* scraped_data_to_postgres.py: the documents of the file it has loaded.
HandedToOldScript ==
    IF loader = "scraped_data_to_postgres" /\ hist.loads > 0 /\ hist.lexc = "none"
    THEN {h \in PartyPages :
            \E i \in 1..Len(DocPositions(metadata.data)) :
                DocPositions(metadata.data)[i][2] = PageOf(h).document_number}
    ELSE {}

\* C25: a document whose page count is missing or is not an integer is
\* loaded with num_pages = 0, by main.py and by scraped_data_to_postgres.py.
C25_BadPageCountLoadedAsZero ==
    /\ \A h \in HandedToInsert :
           PageCountBad(h) => HasDocumentWithPages(store, PageOf(h).document_number, 0)
    /\ \A h \in HandedToOldScript :
           PageCountBad(h) => HasDocumentWithPages(lstore, PageOf(h).document_number, 0)

\* It holds for a page without the label, and in scraped_data_to_postgres.py
\* for every page.
MissingPageCountLoadedAsZero ==
    /\ \A h \in HandedToInsert :
           PageOf(h).num_pages = AbsentS =>
               HasDocumentWithPages(store, PageOf(h).document_number, 0)
    /\ \A h \in HandedToOldScript :
           HasDocumentWithPages(lstore, PageOf(h).document_number, 0)

\* main.py has stored D13, whose page has no page count, with num_pages = 0.
MissingPageCountWitness ==
    /\ "/doc/13" \in HandedToInsert
    /\ HasDocumentWithPages(store, "D13", 0)

-----------------------------------------------------------------------------
(* insert_content raising part-way, checked under SpecParties.             *)

\* The pages whose content insert_content was given and on which it raised.
InsertRaised == hist.inserted \cap hist.raised

\* scrape_pin of main.py has committed.
Committed ==
    program = "main" /\ pc \in {"append", "loop", "done"} /\ hist.commit = "ok"

HasRowOf(rows, doc_num) ==
    \E i \in 1..Len(rows) : rows[i].doc_num = doc_num

\* Every row insert_content builds from the page is among the rows.
CompleteGraph(rows, href) ==
    LET graph == insert_content(<<>>, PinC,
                                scrape_doc_page(PageOf(href), "ok").content).session
    IN  \A i \in 1..Len(graph) : \E j \in 1..Len(rows) : rows[j] = graph[i]

\* C27: after the commit of the PIN no row of a document on which
\* insert_content raised is persisted, and a document on which it returned
\* is persisted with all its rows.
C27_RaisedDocumentNotPersisted ==
    Committed =>
        /\ \A h \in InsertRaised : ~HasRowOf(store, PageOf(h).document_number)
        /\ \A h \in hist.inserted \ hist.raised : CompleteGraph(store, h)

\* The exception left the session as it was: it was raised before
\* db_session.add(document).
RaisedBeforeAdd(href) ==
    insert_content(<<>>, PinC, scrape_doc_page(PageOf(href), "ok").content).session = <<>>

\* It holds for the documents on which insert_content raised while it built
\* the Document.
RaisedBeforeAddNotPersisted ==
    Committed =>
        /\ \A h \in InsertRaised :
               RaisedBeforeAdd(h) => ~HasRowOf(store, PageOf(h).document_number)
        /\ \A h \in hist.inserted \ hist.raised : CompleteGraph(store, h)

\* main.py has committed D4 after insert_content raised on D14, whose page
\* count is not an integer.
RaisedBeforeAddWitness ==
    /\ Committed
    /\ "/doc/14" \in InsertRaised
    /\ "/doc/4" \in hist.inserted \ hist.raised
    /\ HasDocument(store, "D4")
    /\ ~HasRowOf(store, "D14")

-----------------------------------------------------------------------------
(* The entity rows of grantors and grantees, checked under SpecParties.    *)

HasEntityWith(rows, doc_num, status, party) ==
    \E i \in 1..Len(rows) :
        /\ rows[i].tbl = "entities"
        /\ rows[i].doc_num = doc_num
        /\ rows[i].entity_status = status
        /\ rows[i].entity_name = party.name
        /\ rows[i].trust_number = party.trust_number

Statuses == {"grantor", "grantee"}

\* The parties of a role in the content main.py extracted from a page.
PartiesOfPage(href, status) ==
    LET entities == scrape_doc_page(PageOf(href), "ok").content.entities
    IN  IF status = "grantor" THEN entities.grantors.data ELSE entities.grantees.data

\* main.py: every party of the documents insert_content returned on has its
\* row after the commit.
PartiesLoadedByMain ==
    Committed =>
        \A h \in hist.inserted \ hist.raised : \A status \in Statuses :
            \A i \in 1..Len(PartiesOfPage(h, status)) :
                HasEntityWith(store, PageOf(h).document_number, status,
                              PartiesOfPage(h, status)[i])

\* A loading script: every party of the records of the file has its row
\* after a load that raised nothing.
PartiesLoadedBy(script) ==
    (loader = script /\ hist.loads > 0 /\ hist.lexc = "none") =>
        \A p \in 1..Len(DocPositions(metadata.data)) : \A status \in Statuses :
            LET pin == DocPositions(metadata.data)[p][1]
                doc_num == DocPositions(metadata.data)[p][2]
                parties == EntitiesOf(DictGet(DictGet(metadata.data, pin), doc_num),
                                      status)
            IN  \A i \in 1..Len(parties) :
                    HasEntityWith(lstore, doc_num, status, parties[i])

\* The file holds a record with grantees and without grantors.
GranteesOnlyRecord ==
    /\ metadata.written
    /\ \E p \in 1..Len(DocPositions(metadata.data)) :
           LET pin == DocPositions(metadata.data)[p][1]
               doc_num == DocPositions(metadata.data)[p][2]
               doc_data == DictGet(DictGet(metadata.data, pin), doc_num)
           IN  /\ EntitiesOf(doc_data, "grantor") = <<>>
               /\ EntitiesOf(doc_data, "grantee") # <<>>

\* C28: every grantee and every grantor of a loaded record has an entity
\* row of its role with its own name and trust number, in main.py and in
\* both loading scripts, and a record with grantees and no grantors does
\* not make the load raise.
C28_PartiesLoadedAsExtracted ==
    /\ PartiesLoadedByMain
    /\ \A script \in Scripts : PartiesLoadedBy(script)
    /\ GranteesOnlyRecord => hist.lexc \notin {"UnboundLocalError", "NameError"}

\* The rows main.py commits satisfy it.
PartiesLoadedAsExtractedByMain == PartiesLoadedByMain

\* main.py has stored D4 with the rows of its grantor and of its grantee.
PartiesLoadedByMainWitness ==
    /\ Committed
    /\ "/doc/4" \in hist.inserted \ hist.raised
    /\ PartiesOfPage("/doc/4", "grantor") # <<>>
    /\ PartiesOfPage("/doc/4", "grantee") # <<>>
    /\ HasEntity(store, "D4", PartiesOfPage("/doc/4", "grantee")[1].name, "grantee")

-----------------------------------------------------------------------------
(* The ledger and the writing of a PIN, checked under Spec.                *)

\* get_pins_to_scrape has just returned: no PIN of this run is processed
\* yet and the ledger is the one it read.
PinsJustRead == program = "main" /\ pc = "loop" /\ idx = 1

\* The two strings are the same parcel: clean_pin gives the same 14 digits.
SameParcel(a, b) ==
    /\ clean_pin(a) # AssertionError
    /\ clean_pin(a) = clean_pin(b)

\* C29: no PIN get_pins_to_scrape returns is, after normalisation, a PIN of
\* the ledger, however the list and the ledger write it.
C29_LedgerMembershipNormalized ==
    PinsJustRead =>
        \A i \in 1..Len(todo) : \A k \in 1..Len(ledger) :
            ~SameParcel(todo[i], ledger[k])

\* What holds is exclusion by the string as read: no PIN returned is equal
\* to a line of the ledger.
LedgerMembershipAsWritten ==
    PinsJustRead =>
        \A i \in 1..Len(todo) : \A k \in 1..Len(ledger) :
            todo[i] # csv_line(ledger[k])

\* A later run has left out the recorded hyphenated PinA and returned PinB.
LedgerMembershipWitness ==
    /\ PinsJustRead
    /\ runs > 1
    /\ pins_csv = File(TRUE, <<PinA, PinB>>)
    /\ ledger = <<PinA>>
    /\ todo = <<PinB>>

-----------------------------------------------------------------------------
(* SpecRuns: main.py run again and again on a fixed input list, with a     *)
(* portal and a database that answer every request.                        *)

\* No request fails: the failure budget is spent from the start.
InitRuns ==
    /\ program = "main"
    /\ pins_csv \in {File(FALSE, <<>>)}
                    \cup {File(TRUE, lines) : lines \in SeqsUpTo(RawPins, MaxPins)}
    /\ data = <<>>
    /\ files = {}
    /\ metadata = NoFile
    /\ lstore = <<>>
    /\ loader = "none"
    /\ ledgerExists = FALSE
    /\ ledger = <<>>
    /\ pc = "start"
    /\ todo = <<>>
    /\ idx = 1
    /\ cleaned_pin = <<>>
    /\ tmpl = 1
    /\ url_pathnames = <<>>
    /\ doc_pathnames = <<>>
    /\ docIdx = 1
    /\ session = <<>>
    /\ store = <<>>
    /\ runs = 1
    /\ faults = MaxFaults
    /\ hist = NewPinHist(NoHist)
    /\ inp = <<>>
    /\ out = <<>>

\* The program is started again after it has ended, any number of times.
Rerun ==
    /\ pc \in {"done", "crashed"}
    /\ pc' = "start"
    /\ NoLocals
    /\ data' = <<>>
    /\ hist' = NewPinHist([hist EXCEPT !.stopped = "no", !.log = <<>>])
    /\ UNCHANGED <<program, loader, pins_csv, ledgerExists, ledger, store, runs,
                   faults, files, metadata, lstore, inp, out>>

NextRuns ==
    \/ GetPins
    \/ ScrapePin
    \/ Finish
    \/ RetrieveTemplate
    \/ ScrapeDoc
    \/ Commit
    \/ AppendLedger
    \/ Rerun

\* The program takes its next step, and an ended program is started again.
SpecRuns == InitRuns /\ [][NextRuns]_vars /\ WF_vars(NextRuns)

\* The PINs an input list can hold.
ListedPins == RawPins \cup {PinC}

InList(pin) == csv_line(pin) \in SeqToSet(pins_of(pins_csv))

Normalizes(pin) == clean_pin(csv_line(pin)) # AssertionError

Recorded(pin) == csv_line(pin) \in SeqToSet(csv_lines(ledger))

\* Every PIN of the list that clean_pin accepts is a line of the ledger.
ValidPinsRecorded ==
    \A pin \in ListedPins : (InList(pin) /\ Normalizes(pin)) => Recorded(pin)

\* C26: under repeated runs over a fixed input list, with a portal and a
\* database that answer, every PIN of the list that clean_pin accepts is
\* eventually a line of the ledger, also when a malformed PIN stands before
\* it in the list.
C26_ValidPinsEventuallyRecorded == <>ValidPinsRecorded

\* It holds for the lists in which clean_pin accepts every PIN.
AllValidEventuallyRecorded ==
    <>((\A pin \in ListedPins : InList(pin) => Normalizes(pin)) => ValidPinsRecorded)

\* Two PINs of pins.csv are in the ledger.
AllValidRecordedWitness ==
    /\ pins_csv = File(TRUE, <<PinB, PinA>>)
    /\ Recorded(PinA)
    /\ Recorded(PinB)
    /\ pc = "done"

-----------------------------------------------------------------------------
(* SpecCrash: main.py killed between two steps and started again.          *)

\* The input lists: no pins.csv (the three default PINs), two PINs, and a
\* list that names a PIN twice.
CrashLists == {File(FALSE, <<>>), File(TRUE, <<PinA, PinB>>),
               File(TRUE, <<PinB, PinA, PinB>>)}

InitCrash ==
    /\ program = "main"
    /\ pins_csv \in CrashLists
    /\ data = <<>>
    /\ files = {}
    /\ metadata = NoFile
    /\ lstore = <<>>
    /\ loader = "none"
    /\ ledgerExists = FALSE
    /\ ledger = <<>>
    /\ pc = "start"
    /\ todo = <<>>
    /\ idx = 1
    /\ cleaned_pin = <<>>
    /\ tmpl = 1
    /\ url_pathnames = <<>>
    /\ doc_pathnames = <<>>
    /\ docIdx = 1
    /\ session = <<>>
    /\ store = <<>>
    /\ runs = 1
    /\ faults = 0
    /\ hist = NewPinHist(NoHist)
    /\ inp = <<>>
    /\ out = <<>>

\* The process is killed between two steps of the loop of the __main__
\* block: the session is lost, the files and the database stay as they are.
Kill ==
    /\ program = "main"
    /\ pc \in {"loop", "discover", "extract", "append"}
    /\ faults < MaxFaults
    /\ faults' = faults + 1
    /\ pc' = "crashed"
    /\ session' = <<>>
    /\ hist' = [hist EXCEPT !.stopped = "killed"]
    /\ UNCHANGED <<pins_csv, ledgerExists, ledger, todo, idx, cleaned_pin, tmpl,
                   url_pathnames, doc_pathnames, docIdx, store, runs, inp, out>>
    /\ UNCHANGED scraperVars

\* The program is started again after it was killed or has crashed.  The
\* log goes on, with a mark where the new run begins.
Recover ==
    /\ pc = "crashed"
    /\ runs' = runs + 1
    /\ pc' = "start"
    /\ NoLocals
    /\ data' = <<>>
    /\ hist' = NewPinHist([hist EXCEPT !.stopped = "no",
                                       !.log = Append(@, Event("start", 0, <<>>, ""))])
    /\ UNCHANGED <<program, loader, pins_csv, ledgerExists, ledger, store,
                   faults, files, metadata, lstore, inp, out>>

NextCrash ==
    \/ GetPins
    \/ ScrapePin
    \/ Finish
    \/ RetrieveTemplate
    \/ ScrapeDoc
    \/ Commit
    \/ AppendLedger
    \/ Kill
    \/ Recover

SpecCrash == InitCrash /\ [][NextCrash]_vars

\* The run in which the entry at a position of the log was written.
RunOf(i) ==
    Cardinality({s \in 1..(i - 1) : hist.log[s].op = "start"}) + 1

\* The PINs a run has begun to process: those it searched the portal for.
Searched(r) ==
    {hist.log[i].pin : i \in {k \in 1..Len(hist.log) :
                                 hist.log[k].op = "search" /\ RunOf(k) = r}}

\* No PIN is processed in a run after an earlier run recorded it.
NoRecordedPinAgain(log) ==
    \A i, k \in 1..Len(log) :
        (/\ k < i
         /\ log[k].op = "append"
         /\ log[i].op = "search"
         /\ log[k].pin = log[i].pin) => RunOf(k) = RunOf(i)

\* A run processes at most one PIN that the run before it had begun.
AtMostInFlightAgain ==
    \A r \in 1..MaxFaults :
        Cardinality(Searched(r) \cap Searched(r + 1)) <= 1

\* C30: every step leaves the lines of the ledger in place, adding at most
\* one at its end, and never removes the file; a PIN an earlier run
\* recorded is not processed by a later run, and a run processes again at
\* most one PIN of the run before it, wherever that run was killed.
C30_LedgerAppendOnlyCrashSafe ==
    [][/\ ledgerExists => ledgerExists'
       /\ \/ ledger' = ledger
          \/ \E pin \in SeqToSet(todo) : ledger' = Append(ledger, pin)
       /\ NoRecordedPinAgain(hist.log')
       /\ AtMostInFlightAgain']_vars

\* A run was killed after it had recorded PinA and begun PinC; the next run
\* has processed PinC again, and PinB, and has ended.
C30_Witness ==
    /\ pc = "done"
    /\ runs = 2
    /\ hist.stopped = "no"
    /\ ledger = <<PinA, PinC, PinB>>
    /\ Searched(1) = {clean_pin(PinA), clean_pin(PinC)}
    /\ Searched(2) = {clean_pin(PinC), clean_pin(PinB)}

=============================================================================
